---------------------------- MODULE Spec2Model ----------------------------
(***************************************************************************)
(* doc-flow: access control, submissions and derived views of the API.     *)
(*                                                                         *)
(* The relational tables are the state; every route handler is an action   *)
(* that reads the tables as its queries do and writes them as its          *)
(* inserts/updates/deletes do.  A middleware outcome is a number: 0 for    *)
(* next(), otherwise the HTTP status it answers with.  resp names the last  *)
(* step taken and the status it was answered with (0 for a database write  *)
(* that is not a request).                                                 *)
(*                                                                         *)
(* Columns that no modelled decision reads (title, names, timestamps,      *)
(* view_count, feedback) are left out of the rows.  The rows that          *)
(* logActivity appends to activity_log are written by the handlers of      *)
(* folders, of POST /api/comments, of POST and DELETE /api/tasks and of     *)
(* PUT /api/courses/:courseId; the handlers of documents, enrollments,      *)
(* submissions and task updates never read the table and their appends are *)
(* left out.                                                               *)
(***************************************************************************)
EXTENDS Integers, Sequences, FiniteSets, TLC

VARIABLES
    courses,               \* rows of table courses: [id, instructor_id, name]
    course_enrollments,    \* rows [course_id, user_id, role]
    projects,              \* rows [id, course_id]
    tasks,                 \* rows [id, project_id, status, due_date, allow_late_submission, max_score]
    task_assignments,      \* rows [task_id, assigned_to, status]
    submissions,           \* rows [id, task_id, user_id, content, attempt_number, score, graded_by, graded_at]
    documents,             \* rows [id, author_id, course_id, folder_id, content, is_deleted]
    document_permissions,  \* rows [document_id, user_id, course_id, permission]
    comments,              \* rows [id, entity_type, entity_id, user_id, parent_id, is_resolved, created_at]
    next_id,               \* the next fresh submission id (ids are never reused)
    next_comment,          \* the next fresh comment id
    now,                   \* the server clock
    reqs,                  \* requests in flight, by request slot (interleaved handlers)
    folders,               \* rows of table folders: [id, name, parent_id]
    next_folder,           \* the next fresh folder id
    tree,                  \* the body of the last answer of GET /api/folders
    activity_log,          \* rows of table activity_log in insertion order
    feed,                  \* the last result of getCourseActivity
    resp                   \* the last step taken: the request and the status it was answered with

vars == <<courses, course_enrollments, projects, tasks, task_assignments,
          submissions, documents, document_permissions, comments, next_id,
          next_comment, now, reqs, folders, next_folder, tree, activity_log,
          feed, resp>>

courseVars == <<courses, course_enrollments, projects>>
taskVars   == <<tasks, task_assignments, submissions, next_id>>
docVars    == <<documents, document_permissions>>
commentVars == <<comments, next_comment>>
folderVars == <<folders, next_folder, tree>>
logVars    == <<activity_log, feed>>

\* no folder stored, nothing logged, no derived view computed yet
NoFoldersNoLog ==
    /\ folders = {}
    /\ next_folder = 1
    /\ tree = [rows |-> <<>>, roots |-> <<>>, children |-> <<>>]
    /\ activity_log = <<>>
    /\ feed = <<>>

Null == "null"          \* NULL in a uuid or text column, an absent parameter
NullInt == 0 - 1        \* NULL in an integer or timestamp column

(***************************************************************************)
(* Users.  The users table is fixed: registration is outside the model.    *)
(***************************************************************************)
Users == {"admin1", "inst1", "stu1", "stu2"}

UserRole(u) ==
    CASE u = "admin1" -> "admin"
      [] u = "inst1"  -> "instructor"
      [] OTHER        -> "student"

ROLES_ADMIN == "admin"

CourseIds  == {"c1", "c2"}
DocIds     == {"d1"}
EnrollRoles == {"student", "teaching_assistant", "instructor"}
PermissionLevels == {"view", "comment", "edit", "admin"}
Contents   == {"", "v1"}

\* Bounds of the model.
MaxPerms == 2          \* document_permissions rows
MaxSubmissions == 3    \* submissions ever created
MaxNow == 1            \* clock ticks
MaxRequests == 3       \* requests running concurrently
MaxComments == 3       \* comments ever created
MaxFolders == 2        \* folders ever created
MaxLog == 1            \* activity_log rows
MaxTreeRows == 3       \* rows of the folders table given to the tree builder
MaxActivity == 2       \* rows of activity_log given to getCourseActivity

NoResp == [op |-> "none", actor |-> Null, target |-> Null, status |-> 0]

Response(op, actor, target, status) ==
    [op |-> op, actor |-> actor, target |-> target, status |-> status]

(***************************************************************************)
(* Queries                                                                 *)
(***************************************************************************)
CourseExists(c) == \E r \in courses : r.id = c
CourseRow(c)    == CHOOSE r \in courses : r.id = c

\* db('course_enrollments').where({course_id, user_id}).first()
Enrolled(u, c) == \E e \in course_enrollments : e.course_id = c /\ e.user_id = u

\* ... .whereIn('role', ['instructor', 'teaching_assistant']).first()
EnrolledAsStaff(u, c) ==
    \E e \in course_enrollments :
        /\ e.course_id = c
        /\ e.user_id = u
        /\ e.role \in {"instructor", "teaching_assistant"}

\* db('course_enrollments').select('course_id').where('user_id', userId)
EnrolledCourses(u) == {e.course_id : e \in {x \in course_enrollments : x.user_id = u}}

\* db('documents').where('id', documentId).where('is_deleted', false).first()
LiveDocs == {r \in documents : ~r.is_deleted}
DocStored(d) == \E r \in documents : r.id = d
DocLive(d)   == \E r \in LiveDocs : r.id = d
DocRow(d)    == CHOOSE r \in documents : r.id = d

\* the document_permissions rows matched by the middleware's where clause
MatchingPermissions(u, d) ==
    {p \in document_permissions :
        /\ p.document_id = d
        /\ (p.user_id = u \/ p.course_id \in EnrolledCourses(u))}

(***************************************************************************)
(* middleware/authorize.js                                                 *)
(***************************************************************************)
canManageCourse(u, c) ==
    IF UserRole(u) = ROLES_ADMIN THEN 0
    ELSE IF ~CourseExists(c) THEN 404
    ELSE IF CourseRow(c).instructor_id = u THEN 0
    ELSE IF ~EnrolledAsStaff(u, c) THEN 403
    ELSE 0

canModifyDocument(u, d) ==
    IF UserRole(u) = ROLES_ADMIN THEN 0
    ELSE IF ~DocStored(d) THEN 404
    ELSE IF DocRow(d).author_id # u THEN 403
    ELSE 0

\* canViewDocument without the is_deleted filter of its document query
canViewDocument_noDeletedFilter(u, d) ==
    IF ~DocStored(d) THEN 404
    ELSE IF UserRole(u) = ROLES_ADMIN \/ DocRow(d).author_id = u THEN 0
    ELSE IF DocRow(d).course_id # Null /\ Enrolled(u, DocRow(d).course_id) THEN 0
    ELSE IF MatchingPermissions(u, d) = {} THEN 403
    ELSE 0

canViewDocument(u, d) ==
    IF ~DocLive(d) THEN 404
    ELSE IF UserRole(u) = ROLES_ADMIN \/ DocRow(d).author_id = u THEN 0
    ELSE IF DocRow(d).course_id # Null /\ Enrolled(u, DocRow(d).course_id) THEN 0
    ELSE IF MatchingPermissions(u, d) = {} THEN 403
    ELSE 0

\* canEditDocument with canViewDocument's enrollment branch copied in
canEditDocument_enrolled(u, d) ==
    IF ~DocLive(d) THEN 404
    ELSE IF UserRole(u) = ROLES_ADMIN \/ DocRow(d).author_id = u THEN 0
    ELSE IF DocRow(d).course_id # Null /\ Enrolled(u, DocRow(d).course_id) THEN 0
    ELSE IF {p \in MatchingPermissions(u, d) : p.permission \in {"edit", "admin"}} = {} THEN 403
    ELSE 0

\* canEditDocument without the author short-circuit
canEditDocument_noAuthor(u, d) ==
    IF ~DocLive(d) THEN 404
    ELSE IF UserRole(u) = ROLES_ADMIN THEN 0
    ELSE IF {p \in MatchingPermissions(u, d) : p.permission \in {"edit", "admin"}} = {} THEN 403
    ELSE 0

\* canEditDocument without the whereIn('permission', ['edit', 'admin']) filter
canEditDocument_anyLevel(u, d) ==
    IF ~DocLive(d) THEN 404
    ELSE IF UserRole(u) = ROLES_ADMIN \/ DocRow(d).author_id = u THEN 0
    ELSE IF MatchingPermissions(u, d) = {} THEN 403
    ELSE 0

canEditDocument(u, d) ==
    IF ~DocLive(d) THEN 404
    ELSE IF UserRole(u) = ROLES_ADMIN \/ DocRow(d).author_id = u THEN 0
    ELSE IF {p \in MatchingPermissions(u, d) : p.permission \in {"edit", "admin"}} = {} THEN 403
    ELSE 0

(***************************************************************************)
(* routes/documents.js                                                     *)
(***************************************************************************)
\* db('folders').where('id', f).first()
FolderStored(f) == \E r \in folders : r.id = f
FolderRow(f)    == CHOOSE r \in folders : r.id = f

\* POST /api/documents (content takes its default ''); folder and course
\* are Null when the body leaves them out
CreateDocument(u, course, folder) ==
    \E d \in DocIds :
        /\ ~DocStored(d)
        /\ IF folder # Null /\ ~FolderStored(folder)
           THEN /\ resp' = Response("CreateDocument", u, d, 404)
                /\ UNCHANGED documents
           ELSE IF course # Null /\ ~Enrolled(u, course) /\ UserRole(u) # ROLES_ADMIN
           THEN /\ resp' = Response("CreateDocument", u, d, 403)
                /\ UNCHANGED documents
           ELSE IF course # Null /\ ~CourseExists(course)
           THEN \* the insert violates the foreign key on course_id
                /\ resp' = Response("CreateDocument", u, d, 500)
                /\ UNCHANGED documents
           ELSE /\ documents' = documents \cup
                       {[id |-> d, author_id |-> u, course_id |-> course,
                         folder_id |-> folder, content |-> "", is_deleted |-> FALSE]}
                /\ resp' = Response("CreateDocument", u, d, 201)
        /\ UNCHANGED <<courseVars, taskVars, document_permissions, commentVars, now, reqs, folderVars, logVars>>

\* GET /api/documents/:id
GetDocument(u, d) ==
    /\ resp' = Response("GetDocument", u, d,
                        IF canViewDocument(u, d) = 0 THEN 200 ELSE canViewDocument(u, d))
    /\ UNCHANGED <<courseVars, taskVars, docVars, commentVars, now, reqs, folderVars, logVars>>

\* PUT /api/documents/:id with a content field
PutDocument(u, d, content) ==
    /\ IF canEditDocument(u, d) # 0
       THEN /\ resp' = Response("PutDocument", u, d, canEditDocument(u, d))
            /\ UNCHANGED documents
       ELSE /\ documents' = {IF r.id = d THEN [r EXCEPT !.content = content] ELSE r :
                               r \in documents}
            /\ resp' = Response("PutDocument", u, d, 200)
    /\ UNCHANGED <<courseVars, taskVars, document_permissions, commentVars, now, reqs, folderVars, logVars>>

\* DELETE /api/documents/:id (soft delete)
DeleteDocument(u, d) ==
    /\ IF canModifyDocument(u, d) # 0
       THEN /\ resp' = Response("DeleteDocument", u, d, canModifyDocument(u, d))
            /\ UNCHANGED documents
       ELSE /\ documents' = {IF r.id = d THEN [r EXCEPT !.is_deleted = TRUE] ELSE r :
                               r \in documents}
            /\ resp' = Response("DeleteDocument", u, d, 200)
    /\ UNCHANGED <<courseVars, taskVars, document_permissions, commentVars, now, reqs, folderVars, logVars>>

(***************************************************************************)
(* document_permissions has no route: rows are written in the database.    *)
(* The table's check constraint allows exactly one of user_id, course_id.  *)
(***************************************************************************)
Grantees == {"stu1"}

PermissionRows ==
    {[document_id |-> d, user_id |-> g, course_id |-> Null, permission |-> l] :
        d \in DocIds, g \in Grantees, l \in PermissionLevels}
    \cup
    {[document_id |-> d, user_id |-> Null, course_id |-> c, permission |-> l] :
        d \in DocIds, c \in CourseIds, l \in PermissionLevels}

InsertDocumentPermission(p) ==
    /\ p \notin document_permissions
    /\ Cardinality(document_permissions) < MaxPerms
    /\ DocStored(p.document_id)                       \* foreign key document_id
    /\ p.course_id # Null => CourseExists(p.course_id) \* foreign key course_id
    /\ document_permissions' = document_permissions \cup {p}
    /\ resp' = Response("InsertDocumentPermission", Null, p.document_id, 0)
    /\ UNCHANGED <<courseVars, taskVars, documents, commentVars, now, reqs, folderVars, logVars>>

DeleteDocumentPermission(p) ==
    /\ p \in document_permissions
    /\ document_permissions' = document_permissions \ {p}
    /\ resp' = Response("DeleteDocumentPermission", Null, p.document_id, 0)
    /\ UNCHANGED <<courseVars, taskVars, documents, commentVars, now, reqs, folderVars, logVars>>

(***************************************************************************)
(* routes/courses.js                                                       *)
(***************************************************************************)
\* POST /api/courses/:courseId/enroll
EnrollUser(actor, c, target, role) ==
    /\ IF canManageCourse(actor, c) # 0
       THEN /\ resp' = Response("EnrollUser", actor, c, canManageCourse(actor, c))
            /\ UNCHANGED course_enrollments
       ELSE IF Enrolled(target, c)
       THEN /\ resp' = Response("EnrollUser", actor, c, 409)
            /\ UNCHANGED course_enrollments
       ELSE IF ~CourseExists(c)
       THEN \* the insert violates the foreign key on course_id
            /\ resp' = Response("EnrollUser", actor, c, 500)
            /\ UNCHANGED course_enrollments
       ELSE /\ course_enrollments' = course_enrollments \cup
                   {[course_id |-> c, user_id |-> target, role |-> role]}
            /\ resp' = Response("EnrollUser", actor, c, 201)
    /\ UNCHANGED <<courses, projects, taskVars, docVars, commentVars, now, reqs, folderVars, logVars>>

\* DELETE /api/courses/:courseId/enrollments/:enrollmentId
\* e is the row that :enrollmentId names; the delete is by id alone.
RemoveEnrollment(actor, c, e) ==
    /\ IF canManageCourse(actor, c) # 0
       THEN /\ resp' = Response("RemoveEnrollment", actor, c, canManageCourse(actor, c))
            /\ UNCHANGED course_enrollments
       ELSE /\ course_enrollments' = course_enrollments \ {e}
            /\ resp' = Response("RemoveEnrollment", actor, c, 200)
    /\ UNCHANGED <<courses, projects, taskVars, docVars, commentVars, now, reqs, folderVars, logVars>>

\* DELETE /api/courses/:courseId with the schema's ON DELETE actions
DeleteCourse(actor, c) ==
    /\ IF canManageCourse(actor, c) # 0
       THEN /\ resp' = Response("DeleteCourse", actor, c, canManageCourse(actor, c))
            /\ UNCHANGED <<courseVars, taskVars, docVars>>
       ELSE LET gonePrj == {p.id : p \in {x \in projects : x.course_id = c}}
                goneTsk == {t.id : t \in {x \in tasks : x.project_id \in gonePrj}}
            IN  /\ courses' = {r \in courses : r.id # c}
                /\ course_enrollments' = {e \in course_enrollments : e.course_id # c}
                /\ projects' = {p \in projects : p.course_id # c}
                /\ tasks' = {t \in tasks : t.id \notin goneTsk}
                /\ task_assignments' = {a \in task_assignments : a.task_id \notin goneTsk}
                /\ submissions' = {s \in submissions : s.task_id \notin goneTsk}
                /\ UNCHANGED next_id
                /\ document_permissions' = {p \in document_permissions : p.course_id # c}
                /\ documents' = {IF r.course_id = c THEN [r EXCEPT !.course_id = Null] ELSE r :
                                   r \in documents}
                /\ resp' = Response("DeleteCourse", actor, c, 200)
    /\ UNCHANGED <<commentVars, now, reqs, folderVars, logVars>>


(***************************************************************************)
(* Queries on tasks and submissions                                        *)
(***************************************************************************)
TaskStored(t) == \E r \in tasks : r.id = t
TaskRow(t)    == CHOOSE r \in tasks : r.id = t
ProjectRow(p) == CHOOSE r \in projects : r.id = p

\* tasks join projects join courses: the course of a task
TaskJoined(t) ==
    \E r \in tasks, p \in projects, c \in courses :
        r.id = t /\ p.id = r.project_id /\ c.id = p.course_id
TaskCourse(t) == ProjectRow(TaskRow(t).project_id).course_id

\* the id of the n-th submission row created
SubId(n) == "s" \o ToString(n)

SubStored(s) == \E r \in submissions : r.id = s
SubRow(s)    == CHOOSE r \in submissions : r.id = s

\* submissions join tasks join projects join courses where submissions.id = s
SubJoined(s) == SubStored(s) /\ TaskJoined(SubRow(s).task_id)

Assigned(t, u) == \E a \in task_assignments : a.task_id = t /\ a.assigned_to = u

\* the update with where({task_id}) alone
SetAssignmentStatus_wholeTask(t, u, st) ==
    {IF a.task_id = t THEN [a EXCEPT !.status = st] ELSE a : a \in task_assignments}

\* db('task_assignments').where({task_id, assigned_to}).update({status})
SetAssignmentStatus(t, u, st) ==
    {IF a.task_id = t /\ a.assigned_to = u THEN [a EXCEPT !.status = st] ELSE a :
        a \in task_assignments}

\* const [{ count }] = await db('submissions').where({ task_id, user_id }).count()
SubmissionCount(t, u) ==
    Cardinality({r \in submissions : r.task_id = t /\ r.user_id = u})

NewSubmission(id, t, u, content, attempt) ==
    [id |-> id, task_id |-> t, user_id |-> u, content |-> content,
     attempt_number |-> attempt, score |-> NullInt, graded_by |-> Null,
     graded_at |-> NullInt]

(***************************************************************************)
(* middleware/authorize.js: canGradeSubmission                             *)
(***************************************************************************)
\* canGradeSubmission with the enrollment lookup not filtered on role
canGradeSubmission_anyEnrollment(u, s) ==
    IF UserRole(u) = ROLES_ADMIN THEN 0
    ELSE IF ~SubJoined(s) THEN 404
    ELSE IF CourseRow(TaskCourse(SubRow(s).task_id)).instructor_id = u THEN 0
    ELSE IF ~Enrolled(u, TaskCourse(SubRow(s).task_id)) THEN 403
    ELSE 0

canGradeSubmission(u, s) ==
    IF UserRole(u) = ROLES_ADMIN THEN 0
    ELSE IF ~SubJoined(s) THEN 404
    ELSE IF CourseRow(TaskCourse(SubRow(s).task_id)).instructor_id = u THEN 0
    ELSE IF ~EnrolledAsStaff(u, TaskCourse(SubRow(s).task_id)) THEN 403
    ELSE 0

\* whether canGradeSubmission has set req.submission when it calls next():
\* the admin branch returns before the row is read and attached
ReqSubmissionAttached(u) == UserRole(u) # ROLES_ADMIN

\* req.submission, when attached
ReqSubmission(s) == SubRow(s)

(***************************************************************************)
(* routes/submissions.js                                                   *)
(***************************************************************************)
\* SubmitChecks without the task_assignments lookup
SubmitChecks_noAssignment(u, t) ==
    IF ~TaskJoined(t) THEN 404
    ELSE IF TaskRow(t).status # "published" THEN 400
    ELSE IF ~Enrolled(u, TaskCourse(t)) THEN 403
    ELSE IF /\ ~TaskRow(t).allow_late_submission
            /\ TaskRow(t).due_date # NullInt
            /\ now > TaskRow(t).due_date THEN 400
    ELSE 0

\* the checks of POST /api/submissions before the attempt number is read:
\* 0 when they pass, otherwise the status answered
SubmitChecks(u, t) ==
    IF ~TaskJoined(t) THEN 404
    ELSE IF TaskRow(t).status # "published" THEN 400
    ELSE IF ~Enrolled(u, TaskCourse(t)) THEN 403
    ELSE IF ~Assigned(t, u) THEN 403
    ELSE IF /\ ~TaskRow(t).allow_late_submission
            /\ TaskRow(t).due_date # NullInt
            /\ now > TaskRow(t).due_date THEN 400
    ELSE 0

\* POST /api/submissions
PostSubmission(u, t, content) ==
    /\ next_id <= MaxSubmissions
    /\ IF SubmitChecks(u, t) # 0
       THEN /\ resp' = Response("PostSubmission", u, t, SubmitChecks(u, t))
            /\ UNCHANGED <<submissions, task_assignments, next_id>>
       ELSE /\ submissions' = submissions \cup
                   {NewSubmission(SubId(next_id), t, u, content, SubmissionCount(t, u) + 1)}
            /\ next_id' = next_id + 1
            /\ task_assignments' = SetAssignmentStatus(t, u, "submitted")
            /\ resp' = Response("PostSubmission", u, SubId(next_id), 201)
    /\ UNCHANGED <<courseVars, tasks, docVars, commentVars, now, reqs, folderVars, logVars>>

\* PUT /api/submissions/:id without the graded_at check
PutSubmission_noGradedCheck(u, s, content) ==
    /\ IF ~SubStored(s)
       THEN /\ resp' = Response("PutSubmission", u, s, 404)
            /\ UNCHANGED submissions
       ELSE IF SubRow(s).user_id # u
       THEN /\ resp' = Response("PutSubmission", u, s, 403)
            /\ UNCHANGED submissions
       ELSE /\ submissions' = {IF r.id = s THEN [r EXCEPT !.content = content] ELSE r :
                                 r \in submissions}
            /\ resp' = Response("PutSubmission", u, s, 200)
    /\ UNCHANGED <<courseVars, tasks, task_assignments, next_id, docVars, commentVars, now, reqs, folderVars, logVars>>

\* PUT /api/submissions/:id
PutSubmission(u, s, content) ==
    /\ IF ~SubStored(s)
       THEN /\ resp' = Response("PutSubmission", u, s, 404)
            /\ UNCHANGED submissions
       ELSE IF SubRow(s).user_id # u
       THEN /\ resp' = Response("PutSubmission", u, s, 403)
            /\ UNCHANGED submissions
       ELSE IF SubRow(s).graded_at # NullInt
       THEN /\ resp' = Response("PutSubmission", u, s, 400)
            /\ UNCHANGED submissions
       ELSE /\ submissions' = {IF r.id = s THEN [r EXCEPT !.content = content] ELSE r :
                                 r \in submissions}
            /\ resp' = Response("PutSubmission", u, s, 200)
    /\ UNCHANGED <<courseVars, tasks, task_assignments, next_id, docVars, commentVars, now, reqs, folderVars, logVars>>

\* POST /api/submissions/:id/grade
GradeSubmission(u, s, score) ==
    /\ IF canGradeSubmission(u, s) # 0
       THEN /\ resp' = Response("GradeSubmission", u, s, canGradeSubmission(u, s))
            /\ UNCHANGED <<submissions, task_assignments>>
       ELSE IF ~ReqSubmissionAttached(u)
       THEN \* submission.task_id on undefined throws; the handler's catch answers 500
            /\ resp' = Response("GradeSubmission", u, s, 500)
            /\ UNCHANGED <<submissions, task_assignments>>
       ELSE IF score > TaskRow(ReqSubmission(s).task_id).max_score
       THEN /\ resp' = Response("GradeSubmission", u, s, 400)
            /\ UNCHANGED <<submissions, task_assignments>>
       ELSE /\ submissions' =
                  {IF r.id = s
                   THEN [r EXCEPT !.score = score, !.graded_by = u, !.graded_at = now]
                   ELSE r : r \in submissions}
            /\ task_assignments' =
                  SetAssignmentStatus(ReqSubmission(s).task_id,
                                      ReqSubmission(s).user_id, "graded")
            /\ resp' = Response("GradeSubmission", u, s, 200)
    /\ UNCHANGED <<courseVars, tasks, next_id, docVars, commentVars, now, reqs, folderVars, logVars>>

\* DELETE /api/submissions/:id
DeleteSubmission(u, s) ==
    /\ IF ~SubStored(s)
       THEN /\ resp' = Response("DeleteSubmission", u, s, 404)
            /\ UNCHANGED <<submissions, task_assignments>>
       ELSE IF SubRow(s).user_id # u
       THEN /\ resp' = Response("DeleteSubmission", u, s, 403)
            /\ UNCHANGED <<submissions, task_assignments>>
       ELSE IF SubRow(s).graded_at # NullInt
       THEN /\ resp' = Response("DeleteSubmission", u, s, 400)
            /\ UNCHANGED <<submissions, task_assignments>>
       ELSE /\ submissions' = {r \in submissions : r.id # s}
            /\ task_assignments' =
                  SetAssignmentStatus(SubRow(s).task_id, SubRow(s).user_id, "in_progress")
            /\ resp' = Response("DeleteSubmission", u, s, 200)
    /\ UNCHANGED <<courseVars, tasks, next_id, docVars, commentVars, now, reqs, folderVars, logVars>>

(***************************************************************************)
(* routes/tasks.js                                                         *)
(***************************************************************************)
\* the permission check the task routes repeat inline
TaskRouteCheck(u, t) ==
    IF ~TaskStored(t) THEN 404
    ELSE IF ~EnrolledAsStaff(u, TaskCourse(t)) /\ UserRole(u) # "admin" THEN 403
    ELSE 0

\* PUT /api/tasks/:id with the fields of upd (a record holding status,
\* due_date and allow_late_submission as the body gives them)
UpdateTask(u, t, upd) ==
    /\ IF TaskRouteCheck(u, t) # 0
       THEN /\ resp' = Response("UpdateTask", u, t, TaskRouteCheck(u, t))
            /\ UNCHANGED tasks
       ELSE /\ tasks' = {IF r.id = t
                         THEN [r EXCEPT !.status = upd.status,
                                        !.due_date = upd.due_date,
                                        !.allow_late_submission = upd.allow_late_submission]
                         ELSE r : r \in tasks}
            /\ resp' = Response("UpdateTask", u, t, 200)
    /\ UNCHANGED <<courseVars, task_assignments, submissions, next_id, docVars, commentVars,
                   now, reqs, folderVars, logVars>>

\* POST /api/tasks/:id/assign
AssignTask(u, t, user_ids, assign_all) ==
    /\ IF TaskRouteCheck(u, t) # 0
       THEN /\ resp' = Response("AssignTask", u, t, TaskRouteCheck(u, t))
            /\ UNCHANGED task_assignments
       ELSE IF ~assign_all /\ user_ids = {}
       THEN /\ resp' = Response("AssignTask", u, t, 400)
            /\ UNCHANGED task_assignments
       ELSE LET targetUserIds ==
                    IF assign_all
                    THEN {e.user_id : e \in {x \in course_enrollments :
                              x.course_id = TaskCourse(t) /\ x.role = "student"}}
                    ELSE user_ids
            IN  \* insert ... onConflict(['task_id', 'assigned_to']).ignore()
                /\ task_assignments' = task_assignments \cup
                       {[task_id |-> t, assigned_to |-> x, status |-> "not_started"] :
                           x \in {y \in targetUserIds : ~Assigned(t, y)}}
                /\ resp' = Response("AssignTask", u, t, 200)
    /\ UNCHANGED <<courseVars, tasks, submissions, next_id, docVars, commentVars, now, reqs, folderVars, logVars>>

\* time passes
Tick ==
    /\ now < MaxNow
    /\ now' = now + 1
    /\ resp' = Response("Tick", Null, Null, 0)
    /\ UNCHANGED <<courseVars, taskVars, docVars, commentVars, reqs, folderVars, logVars>>

(***************************************************************************)
(* Documents, grants and enrollments of one course                         *)
(***************************************************************************)
DocCourses == {"c1"}
DocUsers   == {"admin1", "inst1", "stu1"}
DocEnrollees == {"inst1", "stu1"}

InitDoc ==
    /\ courses = {[id |-> "c1", instructor_id |-> "inst1", name |-> "n0"]}
    /\ course_enrollments = {[course_id |-> "c1", user_id |-> "inst1", role |-> "instructor"]}
    /\ projects = {}
    /\ tasks = {}
    /\ task_assignments = {}
    /\ submissions = {}
    /\ documents = {}
    /\ document_permissions = {}
    /\ comments = {}
    /\ next_comment = 1
    /\ next_id = 1
    /\ now = 0
    /\ reqs = <<>>
    /\ NoFoldersNoLog
    /\ resp = NoResp

NextDoc ==
    \/ \E u \in DocUsers, c \in DocCourses \cup {Null} : CreateDocument(u, c, Null)
    \/ \E u \in DocUsers, d \in DocIds : GetDocument(u, d)
    \/ \E u \in DocUsers, d \in DocIds, x \in Contents : PutDocument(u, d, x)
    \/ \E u \in DocUsers, d \in DocIds : DeleteDocument(u, d)
    \/ \E p \in PermissionRows : InsertDocumentPermission(p)
    \/ \E p \in PermissionRows : DeleteDocumentPermission(p)
    \/ \E a \in DocUsers, c \in DocCourses, t \in DocEnrollees, r \in EnrollRoles :
          EnrollUser(a, c, t, r)
    \/ \E a \in DocUsers, c \in DocCourses, e \in course_enrollments : RemoveEnrollment(a, c, e)
    \/ \E a \in DocUsers, c \in DocCourses : DeleteCourse(a, c)

SpecDoc == InitDoc /\ [][NextDoc]_vars



(***************************************************************************)
(* One task of one course, its assignments and submissions                 *)
(***************************************************************************)
TaskIds   == {"t1"}
Students  == {"stu1", "stu2"}
Submitters == {"stu1"}
Graders   == {"admin1", "inst1", "stu1"}
Assigners == {"inst1", "stu1"}
SubIds    == {SubId(n) : n \in 1..MaxSubmissions}
Scores    == {1, 2}
TaskUpdates ==
    [status : {"draft", "published", "closed"}, due_date : {NullInt, 0},
     allow_late_submission : BOOLEAN]

SeedCourse ==
    /\ courses = {[id |-> "c1", instructor_id |-> "inst1", name |-> "n0"]}
    /\ course_enrollments =
          {[course_id |-> "c1", user_id |-> "inst1", role |-> "instructor"],
           [course_id |-> "c1", user_id |-> "stu1", role |-> "student"],
           [course_id |-> "c1", user_id |-> "stu2", role |-> "student"]}
    /\ projects = {[id |-> "p1", course_id |-> "c1"]}
    /\ documents = {}
    /\ document_permissions = {}
    /\ comments = {}
    /\ next_comment = 1

\* The task is published and has no due date; students are assigned, submit,
\* update and delete, graders grade.
InitSub ==
    /\ SeedCourse
    /\ tasks = {[id |-> "t1", project_id |-> "p1", status |-> "published",
                 due_date |-> NullInt, allow_late_submission |-> FALSE, max_score |-> 1]}
    /\ task_assignments = {}
    /\ submissions = {}
    /\ next_id = 1
    /\ now = 0
    /\ reqs = <<>>
    /\ NoFoldersNoLog
    /\ resp = NoResp

NextSub ==
    \/ \E u \in Submitters, t \in TaskIds : PostSubmission(u, t, "")
    \/ \E u \in Students, s \in SubIds, x \in Contents : PutSubmission(u, s, x)
    \/ \E u \in Graders, s \in SubIds, sc \in Scores : GradeSubmission(u, s, sc)
    \/ \E u \in Students, s \in SubIds : DeleteSubmission(u, s)
    \/ \E u \in Assigners, t \in TaskIds, g \in {{}, {"stu1"}, {"stu2"}}, all \in BOOLEAN :
          AssignTask(u, t, g, all)

SpecSub == InitSub /\ [][NextSub]_vars

\* The task's status, due date and late flag change and the clock advances
\* while one student is assigned and submits.
InitSubmit ==
    /\ SeedCourse
    /\ tasks = {[id |-> "t1", project_id |-> "p1", status |-> "draft",
                 due_date |-> NullInt, allow_late_submission |-> FALSE, max_score |-> 1]}
    /\ task_assignments = {}
    /\ submissions = {}
    /\ next_id = 1
    /\ now = 0
    /\ reqs = <<>>
    /\ NoFoldersNoLog
    /\ resp = NoResp

NextSubmit ==
    \/ \E t \in TaskIds \cup {"t2"} : PostSubmission("stu1", t, "")
    \/ \E u \in {"inst1", "stu1"}, t \in TaskIds, upd \in TaskUpdates : UpdateTask(u, t, upd)
    \/ \E u \in {"inst1", "stu1"}, t \in TaskIds : AssignTask(u, t, {"stu1"}, FALSE)
    \/ Tick

SpecSubmit == InitSubmit /\ [][NextSubmit]_vars


(***************************************************************************)
(* POST /api/submissions as the steps between its awaits, run by           *)
(* concurrent requests.  reqs[p] is the handler's position and locals.     *)
(***************************************************************************)
Slots == 1..MaxRequests

NewReq == [pc |-> "new", user |-> Null, task |-> Null, count |-> 0, id |-> Null, status |-> 0]

RaceUnchanged == UNCHANGED <<courseVars, tasks, docVars, commentVars, now, folderVars, logVars>>

\* lines 260-306: the lookups and checks; a failed check answers at once
PostBegin(p, u, t) ==
    /\ reqs[p].pc = "new"
    /\ IF SubmitChecks(u, t) # 0
       THEN /\ reqs' = [reqs EXCEPT ![p] = [@ EXCEPT !.pc = "done", !.user = u, !.task = t,
                                                       !.status = SubmitChecks(u, t)]]
            /\ resp' = Response("PostSubmission", u, t, SubmitChecks(u, t))
       ELSE /\ reqs' = [reqs EXCEPT ![p] = [@ EXCEPT !.pc = "count", !.user = u, !.task = t]]
            /\ resp' = Response("PostBegin", u, t, 0)
    /\ UNCHANGED <<submissions, task_assignments, next_id>>
    /\ RaceUnchanged

\* lines 308-313: count the stored submissions of (task, user)
PostCount(p) ==
    /\ reqs[p].pc = "count"
    /\ reqs' = [reqs EXCEPT ![p] = [@ EXCEPT !.pc = "insert",
                                              !.count = SubmissionCount(reqs[p].task,
                                                                       reqs[p].user)]]
    /\ resp' = Response("PostCount", reqs[p].user, reqs[p].task, 0)
    /\ UNCHANGED <<submissions, task_assignments, next_id>>
    /\ RaceUnchanged

\* lines 315-324: insert the row with attempt_number = count + 1
PostInsert(p) ==
    /\ reqs[p].pc = "insert"
    /\ submissions' = submissions \cup
           {NewSubmission(SubId(next_id), reqs[p].task, reqs[p].user, "", reqs[p].count + 1)}
    /\ next_id' = next_id + 1
    /\ reqs' = [reqs EXCEPT ![p] = [@ EXCEPT !.pc = "assign", !.id = SubId(next_id)]]
    /\ resp' = Response("PostInsert", reqs[p].user, SubId(next_id), 0)
    /\ UNCHANGED task_assignments
    /\ RaceUnchanged

\* lines 326-336: set the assignment to submitted and answer 201
PostFinish(p) ==
    /\ reqs[p].pc = "assign"
    /\ task_assignments' = SetAssignmentStatus(reqs[p].task, reqs[p].user, "submitted")
    /\ reqs' = [reqs EXCEPT ![p] = [@ EXCEPT !.pc = "done", !.status = 201]]
    /\ resp' = Response("PostSubmission", reqs[p].user, reqs[p].id, 201)
    /\ UNCHANGED <<submissions, next_id>>
    /\ RaceUnchanged

\* Both students are assigned to the published task; every request slot
\* runs one POST /api/submissions.
InitRace ==
    /\ SeedCourse
    /\ tasks = {[id |-> "t1", project_id |-> "p1", status |-> "published",
                 due_date |-> NullInt, allow_late_submission |-> FALSE, max_score |-> 1]}
    /\ task_assignments =
          {[task_id |-> "t1", assigned_to |-> "stu1", status |-> "not_started"],
           [task_id |-> "t1", assigned_to |-> "stu2", status |-> "not_started"]}
    /\ submissions = {}
    /\ next_id = 1
    /\ now = 0
    /\ reqs = [p \in Slots |-> NewReq]
    /\ NoFoldersNoLog
    /\ resp = NoResp

NextRace ==
    \/ \E p \in Slots, u \in Students \cup {"inst1"}, t \in TaskIds : PostBegin(p, u, t)
    \/ \E p \in Slots : PostCount(p)
    \/ \E p \in Slots : PostInsert(p)
    \/ \E p \in Slots : PostFinish(p)

SpecRace == InitRace /\ [][NextRace]_vars


(***************************************************************************)
(* utils/activityLogger.js: logActivity                                    *)
(***************************************************************************)
\* a row of activity_log; created_at is the column's default, the time of the
\* insert
LogRow(userId, action, entityType, entityId, at) ==
    [user_id |-> userId, action |-> action, entity_type |-> entityType,
     entity_id |-> entityId, created_at |-> at]

LogEntry(userId, action, entityType, entityId) ==
    LogRow(userId, action, entityType, entityId, now)

\* the rows of activity_log after logActivity returns; ok tells whether the
\* insert succeeds
logActivity(userId, action, entityType, entityId, ok) ==
    IF ok
    THEN Append(activity_log, LogEntry(userId, action, entityType, entityId))
    ELSE activity_log

\* logActivity with a catch block that throws the error on
logActivityRaises_rethrow(ok) == ~ok

\* whether logActivity raises to its caller: its catch block swallows the
\* error of a failed insert
logActivityRaises(ok) == FALSE

(***************************************************************************)
(* PUT, DELETE and grade of one submission as the steps between their       *)
(* awaits, run by concurrent requests.  reqs[p] holds the request and the   *)
(* task_id and user_id of the submission row that its lookup has read.      *)
(***************************************************************************)
NewSubReq ==
    [pc |-> "new", op |-> Null, user |-> Null, sub |-> Null, content |-> Null,
     task |-> Null, owner |-> Null, score |-> 0, status |-> 0]

SubRaceUnchanged ==
    UNCHANGED <<courseVars, tasks, next_id, docVars, commentVars, now, folderVars, logVars>>

\* the answer of request p with status st
Answer(p, st) == [reqs EXCEPT ![p] = [@ EXCEPT !.pc = "done", !.status = st]]

\* the request p as it begins: its route and parameters
Begun(p, op, u, s, content, score) ==
    [reqs EXCEPT ![p] = [@ EXCEPT !.op = op, !.user = u, !.sub = s, !.content = content,
                                  !.score = score]]

\* search.js 354-371 and 449-466: the lookup and the checks of the owner's
\* PUT or DELETE; a failed check answers at once
OwnerBegin(p, op, u, s, content) ==
    /\ reqs[p].pc = "new"
    /\ LET st == IF ~SubStored(s) THEN 404
                 ELSE IF SubRow(s).user_id # u THEN 403
                 ELSE IF SubRow(s).graded_at # NullInt THEN 400
                 ELSE 0
           r  == Begun(p, op, u, s, content, 0)
       IN  IF st # 0
           THEN /\ reqs' = [r EXCEPT ![p] = [@ EXCEPT !.pc = "done", !.status = st]]
                /\ resp' = Response(op, u, s, st)
           ELSE /\ reqs' = [r EXCEPT ![p] = [@ EXCEPT !.pc = "write",
                                                       !.task = SubRow(s).task_id,
                                                       !.owner = SubRow(s).user_id]]
                /\ resp' = Response("OwnerBegin", u, s, 0)
    /\ UNCHANGED <<submissions, task_assignments>>
    /\ SubRaceUnchanged

\* search.js 373-383: the update by id and the answer
PutCommit(p) ==
    /\ reqs[p].pc = "write"
    /\ reqs[p].op = "PutSubmission"
    /\ submissions' = {IF r.id = reqs[p].sub THEN [r EXCEPT !.content = reqs[p].content]
                       ELSE r : r \in submissions}
    /\ reqs' = Answer(p, 200)
    /\ resp' = Response("PutSubmission", reqs[p].user, reqs[p].sub, 200)
    /\ UNCHANGED task_assignments
    /\ SubRaceUnchanged

\* search.js 468: the delete by id
DeleteRow(p) ==
    /\ reqs[p].pc = "write"
    /\ reqs[p].op = "DeleteSubmission"
    /\ submissions' = {r \in submissions : r.id # reqs[p].sub}
    /\ reqs' = [reqs EXCEPT ![p] = [@ EXCEPT !.pc = "assign"]]
    /\ resp' = Response("DeleteRow", reqs[p].user, reqs[p].sub, 0)
    /\ UNCHANGED task_assignments
    /\ SubRaceUnchanged

\* search.js 470-479: the assignment goes back to in_progress; the answer
DeleteAssign(p) ==
    /\ reqs[p].pc = "assign"
    /\ reqs[p].op = "DeleteSubmission"
    /\ task_assignments' = SetAssignmentStatus(reqs[p].task, reqs[p].owner, "in_progress")
    /\ reqs' = Answer(p, 200)
    /\ resp' = Response("DeleteSubmission", reqs[p].user, reqs[p].sub, 200)
    /\ UNCHANGED submissions
    /\ SubRaceUnchanged

\* canGradeSubmission and search.js 397-413: the middleware, which attaches the
\* row it read, and the score check
GradeBegin(p, u, s, score) ==
    /\ reqs[p].pc = "new"
    /\ LET st == IF canGradeSubmission(u, s) # 0 THEN canGradeSubmission(u, s)
                 ELSE IF ~ReqSubmissionAttached(u) THEN 500
                 ELSE IF score > TaskRow(ReqSubmission(s).task_id).max_score THEN 400
                 ELSE 0
           r  == Begun(p, "GradeSubmission", u, s, Null, score)
       IN  IF st # 0
           THEN /\ reqs' = [r EXCEPT ![p] = [@ EXCEPT !.pc = "done", !.status = st]]
                /\ resp' = Response("GradeSubmission", u, s, st)
           ELSE /\ reqs' = [r EXCEPT ![p] = [@ EXCEPT !.pc = "write",
                                                       !.task = ReqSubmission(s).task_id,
                                                       !.owner = ReqSubmission(s).user_id]]
                /\ resp' = Response("GradeBegin", u, s, 0)
    /\ UNCHANGED <<submissions, task_assignments>>
    /\ SubRaceUnchanged

\* search.js 415-424: the update of the row with the grade
GradeUpdate(p) ==
    /\ reqs[p].pc = "write"
    /\ reqs[p].op = "GradeSubmission"
    /\ submissions' =
          {IF r.id = reqs[p].sub
           THEN [r EXCEPT !.score = reqs[p].score, !.graded_by = reqs[p].user,
                          !.graded_at = now]
           ELSE r : r \in submissions}
    /\ reqs' = [reqs EXCEPT ![p] = [@ EXCEPT !.pc = "assign"]]
    /\ resp' = Response("GradeUpdate", reqs[p].user, reqs[p].sub, 0)
    /\ UNCHANGED task_assignments
    /\ SubRaceUnchanged

\* search.js 426-436: the assignment becomes graded; the answer
GradeAssign(p) ==
    /\ reqs[p].pc = "assign"
    /\ reqs[p].op = "GradeSubmission"
    /\ task_assignments' = SetAssignmentStatus(reqs[p].task, reqs[p].owner, "graded")
    /\ reqs' = Answer(p, 200)
    /\ resp' = Response("GradeSubmission", reqs[p].user, reqs[p].sub, 200)
    /\ UNCHANGED submissions
    /\ SubRaceUnchanged

\* stu1 has submitted s1 on task t1; stu1 updates or deletes it while inst1
\* grades it.
InitSubRace ==
    /\ SeedCourse
    /\ tasks = {[id |-> "t1", project_id |-> "p1", status |-> "published",
                 due_date |-> NullInt, allow_late_submission |-> FALSE, max_score |-> 1]}
    /\ task_assignments = {[task_id |-> "t1", assigned_to |-> "stu1", status |-> "submitted"]}
    /\ submissions = {NewSubmission(SubId(1), "t1", "stu1", "", 1)}
    /\ next_id = 2
    /\ now = 0
    /\ reqs = [p \in Slots |-> NewSubReq]
    /\ NoFoldersNoLog
    /\ resp = NoResp

NextSubRace ==
    \/ \E p \in Slots, op \in {"PutSubmission", "DeleteSubmission"} :
          OwnerBegin(p, op, "stu1", SubId(1), "v1")
    \/ \E p \in Slots : PutCommit(p)
    \/ \E p \in Slots : DeleteRow(p)
    \/ \E p \in Slots : DeleteAssign(p)
    \/ \E p \in Slots, sc \in Scores : GradeBegin(p, "inst1", SubId(1), sc)
    \/ \E p \in Slots : GradeUpdate(p)
    \/ \E p \in Slots : GradeAssign(p)

SpecSubRace == InitSubRace /\ [][NextSubRace]_vars

(***************************************************************************)
(* PUT /api/courses/:courseId as its two steps, the canManageCourse         *)
(* middleware and the handler, run by concurrent requests.  reqs[p] is the  *)
(* request's position and parameters.                                      *)
(***************************************************************************)
NewCourseReq == [pc |-> "new", user |-> Null, course |-> Null, name |-> Null, status |-> 0]

CourseNames == {"n1"}

CourseRaceUnchanged ==
    UNCHANGED <<projects, taskVars, docVars, commentVars, now, folderVars, feed>>

\* authorize.js 72-119: the middleware answers or calls next()
PutCourseBegin(p, u, c, name) ==
    /\ reqs[p].pc = "new"
    /\ IF canManageCourse(u, c) # 0
       THEN /\ reqs' = [reqs EXCEPT ![p] = [@ EXCEPT !.pc = "done", !.user = u, !.course = c,
                                                       !.name = name,
                                                       !.status = canManageCourse(u, c)]]
            /\ resp' = Response("PutCourse", u, c, canManageCourse(u, c))
       ELSE /\ reqs' = [reqs EXCEPT ![p] = [@ EXCEPT !.pc = "update", !.user = u,
                                                       !.course = c, !.name = name]]
            /\ resp' = Response("PutCourseBegin", u, c, 0)
    /\ UNCHANGED <<courses, course_enrollments, activity_log>>
    /\ CourseRaceUnchanged

\* the handler with the permission looked up again before its update
PutCourseCommit_recheck(p) ==
    /\ reqs[p].pc = "update"
    /\ IF canManageCourse(reqs[p].user, reqs[p].course) # 0
       THEN /\ reqs' = [reqs EXCEPT ![p] = [@ EXCEPT !.pc = "done",
                            !.status = canManageCourse(reqs[p].user, reqs[p].course)]]
            /\ resp' = Response("PutCourse", reqs[p].user, reqs[p].course,
                                canManageCourse(reqs[p].user, reqs[p].course))
            /\ UNCHANGED <<courses, activity_log>>
       ELSE /\ courses' = {IF r.id = reqs[p].course THEN [r EXCEPT !.name = reqs[p].name]
                           ELSE r : r \in courses}
            /\ activity_log' = logActivity(reqs[p].user, "update", "course", reqs[p].course, TRUE)
            /\ reqs' = [reqs EXCEPT ![p] = [@ EXCEPT !.pc = "done", !.status = 200]]
            /\ resp' = Response("PutCourse", reqs[p].user, reqs[p].course, 200)
    /\ UNCHANGED course_enrollments
    /\ CourseRaceUnchanged

\* courses.js 170-193: the update by id, the log entry and the answer
PutCourseCommit(p) ==
    /\ reqs[p].pc = "update"
    /\ courses' = {IF r.id = reqs[p].course THEN [r EXCEPT !.name = reqs[p].name]
                   ELSE r : r \in courses}
    /\ activity_log' = logActivity(reqs[p].user, "update", "course", reqs[p].course, TRUE)
    /\ reqs' = [reqs EXCEPT ![p] = [@ EXCEPT !.pc = "done", !.status = 200]]
    /\ resp' = Response("PutCourse", reqs[p].user, reqs[p].course, 200)
    /\ UNCHANGED course_enrollments
    /\ CourseRaceUnchanged

\* Course c1 of inst1 with stu1 as teaching assistant; stu1 and stu2 send
\* updates while inst1 removes and restores enrollments.
InitCourseRace ==
    /\ courses = {[id |-> "c1", instructor_id |-> "inst1", name |-> "n0"]}
    /\ course_enrollments =
          {[course_id |-> "c1", user_id |-> "stu1", role |-> "teaching_assistant"]}
    /\ projects = {}
    /\ tasks = {}
    /\ task_assignments = {}
    /\ submissions = {}
    /\ next_id = 1
    /\ documents = {}
    /\ document_permissions = {}
    /\ comments = {}
    /\ next_comment = 1
    /\ now = 0
    /\ reqs = [p \in Slots |-> NewCourseReq]
    /\ NoFoldersNoLog
    /\ resp = NoResp

NextCourseRace ==
    \/ \E p \in Slots, u \in {"stu1", "stu2"}, n \in CourseNames :
          PutCourseBegin(p, u, "c1", n)
    \/ \E p \in Slots : PutCourseCommit(p)
    \/ \E e \in course_enrollments : RemoveEnrollment("inst1", "c1", e)
    \/ \E r \in {"student", "teaching_assistant"} : EnrollUser("inst1", "c1", "stu1", r)

SpecCourseRace == InitCourseRace /\ [][NextCourseRace]_vars

(***************************************************************************)
(* routes/comments.js                                                      *)
(***************************************************************************)
\* the id of the n-th comment row created
CommentId(n) == "k" \o ToString(n)

CommentStored(k) == \E r \in comments : r.id = k
CommentRow(k)    == CHOOSE r \in comments : r.id = k

\* orderBy('comments.created_at', 'asc'): the orders in which the query may
\* return the rows of S; rows of equal created_at come in any order
OldestFirst(S) ==
    {q \in [1..Cardinality(S) -> S] :
        /\ \A i, j \in 1..Cardinality(S) : i # j => q[i] # q[j]
        /\ \A i, j \in 1..Cardinality(S) : i < j => q[i].created_at <= q[j].created_at}

\* validate.js 326-341: rootComments, and commentMap[id].replies (children)
\* for every row
BuildThread(rows) ==
    LET ids == {rows[i].id : i \in 1..Len(rows)}
        IsRoot(r) == r.parent_id = Null
        Ids(q) == [i \in 1..Len(q) |-> q[i].id]
    IN  [rows     |-> rows,
         roots    |-> Ids(SelectSeq(rows, IsRoot)),
         children |-> [id \in ids |->
                         LET IsReply(r) == r.parent_id = id /\ r.parent_id \in ids
                         IN  Ids(SelectSeq(rows, IsReply))]]

\* the bodies that GET /api/comments can answer for an entity; the join with
\* users keeps the rows whose user_id names a stored user
GetCommentsBody(etype, eid) ==
    {BuildThread(rows) :
        rows \in OldestFirst({r \in comments :
                    r.entity_type = etype /\ r.entity_id = eid /\ r.user_id \in Users})}

\* GET /api/comments?entity_type=&entity_id= : no access check is made
GetComments(u, etype, eid) ==
    /\ resp' = Response("GetComments", u, eid, 200)
    /\ UNCHANGED <<courseVars, taskVars, docVars, commentVars, now, reqs, folderVars, logVars>>

\* POST /api/comments without the check that the parent is a comment on the
\* same entity
PostComment_anyEntityParent(u, etype, eid, parent) ==
    /\ next_comment <= MaxComments
    /\ IF parent # Null /\ ~CommentStored(parent)
       THEN /\ resp' = Response("PostComment", u, eid, 404)
            /\ UNCHANGED commentVars
       ELSE /\ comments' = comments \cup
                   {[id |-> CommentId(next_comment), entity_type |-> etype, entity_id |-> eid,
                     user_id |-> u, parent_id |-> parent, is_resolved |-> FALSE,
                     created_at |-> now]}
            /\ next_comment' = next_comment + 1
            /\ resp' = Response("PostComment", u, eid, 201)
    /\ activity_log' = IF resp'.status = 201
                       THEN logActivity(u, "create", etype, eid, TRUE)
                       ELSE activity_log
    /\ UNCHANGED <<courseVars, taskVars, docVars, now, reqs, folderVars, feed>>

\* POST /api/comments : no access check is made; the comment is logged as a
\* 'create' on the entity it is about
PostComment(u, etype, eid, parent) ==
    /\ next_comment <= MaxComments
    /\ IF parent # Null /\ ~CommentStored(parent)
       THEN /\ resp' = Response("PostComment", u, eid, 404)
            /\ UNCHANGED commentVars
       ELSE IF /\ parent # Null
               /\ (CommentRow(parent).entity_id # eid \/ CommentRow(parent).entity_type # etype)
       THEN /\ resp' = Response("PostComment", u, eid, 400)
            /\ UNCHANGED commentVars
       ELSE /\ comments' = comments \cup
                   {[id |-> CommentId(next_comment), entity_type |-> etype, entity_id |-> eid,
                     user_id |-> u, parent_id |-> parent, is_resolved |-> FALSE,
                     created_at |-> now]}
            /\ next_comment' = next_comment + 1
            /\ resp' = Response("PostComment", u, eid, 201)
    /\ activity_log' = IF resp'.status = 201
                       THEN logActivity(u, "create", etype, eid, TRUE)
                       ELSE activity_log
    /\ UNCHANGED <<courseVars, taskVars, docVars, now, reqs, folderVars, feed>>

\* the rows removed with comment k by parent_id ... ON DELETE CASCADE
RECURSIVE ReplySubtree(_)
ReplySubtree(ids) ==
    LET more == ids \cup {r.id : r \in {x \in comments : x.parent_id \in ids}}
    IN  IF more = ids THEN ids ELSE ReplySubtree(more)

\* DELETE /api/comments/:id with a cascade that stops at the direct replies
DeleteComment_directReplies(u, k) ==
    /\ IF ~CommentStored(k)
       THEN /\ resp' = Response("DeleteComment", u, k, 404)
            /\ UNCHANGED comments
       ELSE IF CommentRow(k).user_id # u /\ UserRole(u) # "admin"
       THEN /\ resp' = Response("DeleteComment", u, k, 403)
            /\ UNCHANGED comments
       ELSE /\ comments' = {r \in comments : r.id # k /\ r.parent_id # k}
            /\ resp' = Response("DeleteComment", u, k, 200)
    /\ UNCHANGED <<courseVars, taskVars, docVars, next_comment, now, reqs, folderVars, logVars>>

\* DELETE /api/comments/:id
DeleteComment(u, k) ==
    /\ IF ~CommentStored(k)
       THEN /\ resp' = Response("DeleteComment", u, k, 404)
            /\ UNCHANGED comments
       ELSE IF CommentRow(k).user_id # u /\ UserRole(u) # "admin"
       THEN /\ resp' = Response("DeleteComment", u, k, 403)
            /\ UNCHANGED comments
       ELSE /\ comments' = {r \in comments : r.id \notin ReplySubtree({k})}
            /\ resp' = Response("DeleteComment", u, k, 200)
    /\ UNCHANGED <<courseVars, taskVars, docVars, next_comment, now, reqs, folderVars, logVars>>

\* POST /api/comments/:id/resolve : no permission check is made
ResolveComment(u, k) ==
    /\ IF ~CommentStored(k)
       THEN /\ resp' = Response("ResolveComment", u, k, 404)
            /\ UNCHANGED comments
       ELSE /\ comments' = {IF r.id = k THEN [r EXCEPT !.is_resolved = TRUE] ELSE r :
                              r \in comments}
            /\ resp' = Response("ResolveComment", u, k, 200)
    /\ UNCHANGED <<courseVars, taskVars, docVars, next_comment, now, reqs, folderVars, logVars>>

\* Document d1 of course c1, written by inst1; stu1 is enrolled in c1, stu2
\* is not and holds no grant.  Comments are made on d1 and on task t1.
CommentUsers == {"admin1", "inst1", "stu1", "stu2"}
CommentIds   == {CommentId(n) : n \in 1..MaxComments}
Entities     == {<<"document", "d1">>, <<"task", "t1">>}

InitComment ==
    /\ courses = {[id |-> "c1", instructor_id |-> "inst1", name |-> "n0"]}
    /\ course_enrollments =
          {[course_id |-> "c1", user_id |-> "inst1", role |-> "instructor"],
           [course_id |-> "c1", user_id |-> "stu1", role |-> "student"]}
    /\ projects = {}
    /\ tasks = {}
    /\ task_assignments = {}
    /\ submissions = {}
    /\ documents = {[id |-> "d1", author_id |-> "inst1", course_id |-> "c1",
                     folder_id |-> Null, content |-> "", is_deleted |-> FALSE]}
    /\ document_permissions = {}
    /\ comments = {}
    /\ next_comment = 1
    /\ next_id = 1
    /\ now = 0
    /\ reqs = <<>>
    /\ NoFoldersNoLog
    /\ resp = NoResp

NextComment ==
    \/ \E u \in CommentUsers, e \in Entities : GetComments(u, e[1], e[2])
    \/ \E u \in CommentUsers, e \in Entities, k \in CommentIds \cup {Null} :
          PostComment(u, e[1], e[2], k)
    \/ \E u \in CommentUsers, k \in CommentIds : DeleteComment(u, k)
    \/ \E u \in CommentUsers, k \in CommentIds : ResolveComment(u, k)

SpecComment == InitComment /\ [][NextComment]_vars

\* Threads of replies on document d1: stu1 writes and deletes, stu2 tries to
\* delete what stu1 wrote.
NextThread ==
    \/ \E k \in CommentIds \cup {Null} : PostComment("stu1", "document", "d1", k)
    \/ \E u \in {"stu1", "stu2"}, k \in CommentIds : DeleteComment(u, k)

SpecThread == InitComment /\ [][NextThread]_vars

\* Threads on document d1 and on task t1 while the clock goes on: stu1 writes,
\* deletes and reads.
NextForum ==
    \/ \E e \in Entities, k \in CommentIds \cup {Null} : PostComment("stu1", e[1], e[2], k)
    \/ \E k \in CommentIds : DeleteComment("stu1", k)
    \/ \E e \in Entities : GetComments("stu1", e[1], e[2])
    \/ Tick

SpecForum == InitComment /\ [][NextForum]_vars

(***************************************************************************)
(* routes/folders.js                                                       *)
(*                                                                         *)
(* Each handler is first the result it computes from the tables (the       *)
(* status it answers and the tables after it), then the action that        *)
(* commits that result.  A logActivity that raised would be caught by the  *)
(* handler's own catch block, which answers 500 after the write.           *)
(***************************************************************************)
FolderId(n) == "f" \o ToString(n)
FolderIds   == {FolderId(n) : n \in 1..MaxFolders}
FolderNames == {"a", "b"}
Undefined   == "undefined"     \* a field the request body leaves out

\* POST /api/folders
CreateFolderResult(u, name, parent_id, ok) ==
    IF parent_id # Null /\ ~FolderStored(parent_id)
    THEN [status |-> 404, folders |-> folders, activity_log |-> activity_log]
    ELSE [status |-> IF logActivityRaises(ok) THEN 500 ELSE 201,
          folders |-> folders \cup
              {[id |-> FolderId(next_folder), name |-> name, parent_id |-> parent_id]},
          activity_log |-> logActivity(u, "create", "folder", FolderId(next_folder), ok)]

CreateFolder(u, name, parent_id, ok) ==
    LET r == CreateFolderResult(u, name, parent_id, ok) IN
    /\ next_folder <= MaxFolders
    /\ Len(r.activity_log) <= MaxLog
    /\ folders' = r.folders
    /\ next_folder' = IF r.folders # folders THEN next_folder + 1 ELSE next_folder
    /\ activity_log' = r.activity_log
    /\ resp' = Response("CreateFolder", u,
                        IF r.folders # folders THEN FolderId(next_folder) ELSE parent_id,
                        r.status)
    /\ UNCHANGED <<courseVars, taskVars, docVars, commentVars, now, reqs, tree, feed>>

\* PUT /api/folders/:id; name and parent_id are Undefined when the body
\* leaves them out, parent_id is Null when the body gives null
UpdateFolderResult(u, id, name, parent_id, ok) ==
    IF ~FolderStored(id)
    THEN [status |-> 404, folders |-> folders, activity_log |-> activity_log]
    ELSE IF parent_id = id
    THEN [status |-> 400, folders |-> folders, activity_log |-> activity_log]
    ELSE IF parent_id \notin {Undefined, Null} /\ ~FolderStored(parent_id)
    THEN \* the update violates the foreign key on parent_id
         [status |-> 500, folders |-> folders, activity_log |-> activity_log]
    ELSE [status |-> IF logActivityRaises(ok) THEN 500 ELSE 200,
          folders |->
              {IF r.id = id
               THEN [r EXCEPT !.name = IF name # Undefined THEN name ELSE @,
                              !.parent_id = IF parent_id # Undefined THEN parent_id ELSE @]
               ELSE r : r \in folders},
          activity_log |-> logActivity(u, "update", "folder", id, ok)]

UpdateFolder(u, id, name, parent_id, ok) ==
    LET r == UpdateFolderResult(u, id, name, parent_id, ok) IN
    /\ Len(r.activity_log) <= MaxLog
    /\ folders' = r.folders
    /\ activity_log' = r.activity_log
    /\ resp' = Response("UpdateFolder", u, id, r.status)
    /\ UNCHANGED <<courseVars, taskVars, docVars, commentVars, now, reqs, next_folder,
                   tree, feed>>

\* DELETE /api/folders/:id without the lookup of documents in the folder
DeleteFolderResult_noDocumentCheck(u, id, ok) ==
    IF \E c \in folders : c.parent_id = id
    THEN [status |-> 400, folders |-> folders, documents |-> documents,
          activity_log |-> activity_log]
    ELSE [status |-> IF logActivityRaises(ok) THEN 500 ELSE 200,
          folders |-> {r \in folders : r.id # id},
          documents |-> {IF d.folder_id = id THEN [d EXCEPT !.folder_id = Null] ELSE d :
                           d \in documents},
          activity_log |-> logActivity(u, "delete", "folder", id, ok)]

\* DELETE /api/folders/:id; the delete sets the folder_id of the (deleted)
\* documents left in the folder to NULL
DeleteFolderResult(u, id, ok) ==
    IF \/ \E c \in folders : c.parent_id = id
       \/ \E d \in documents : d.folder_id = id /\ ~d.is_deleted
    THEN [status |-> 400, folders |-> folders, documents |-> documents,
          activity_log |-> activity_log]
    ELSE [status |-> IF logActivityRaises(ok) THEN 500 ELSE 200,
          folders |-> {r \in folders : r.id # id},
          documents |-> {IF d.folder_id = id THEN [d EXCEPT !.folder_id = Null] ELSE d :
                           d \in documents},
          activity_log |-> logActivity(u, "delete", "folder", id, ok)]

DeleteFolder(u, id, ok) ==
    LET r == DeleteFolderResult(u, id, ok) IN
    /\ Len(r.activity_log) <= MaxLog
    /\ folders' = r.folders
    /\ documents' = r.documents
    /\ activity_log' = r.activity_log
    /\ resp' = Response("DeleteFolder", u, id, r.status)
    /\ UNCHANGED <<courseVars, taskVars, document_permissions, commentVars, now, reqs,
                   next_folder, tree, feed>>

(***************************************************************************)
(* Folders and the documents filed in them                                 *)
(***************************************************************************)
FolderUsers == {"stu1"}

InitFolder ==
    /\ courses = {}
    /\ course_enrollments = {}
    /\ projects = {}
    /\ tasks = {}
    /\ task_assignments = {}
    /\ submissions = {}
    /\ documents = {}
    /\ document_permissions = {}
    /\ comments = {}
    /\ next_comment = 1
    /\ next_id = 1
    /\ now = 0
    /\ reqs = <<>>
    /\ NoFoldersNoLog
    /\ resp = NoResp

NextFolder ==
    \/ \E u \in FolderUsers, p \in FolderIds \cup {Null}, ok \in BOOLEAN :
          CreateFolder(u, "a", p, ok)
    \/ \E u \in FolderUsers, f \in FolderIds, n \in {Undefined, "a"},
          p \in FolderIds \cup {Null, Undefined}, ok \in BOOLEAN :
          UpdateFolder(u, f, n, p, ok)
    \/ \E u \in FolderUsers, f \in FolderIds, ok \in BOOLEAN : DeleteFolder(u, f, ok)
    \/ \E u \in FolderUsers, f \in FolderIds \cup {Null} : CreateDocument(u, Null, f)
    \/ \E u \in FolderUsers, d \in DocIds : DeleteDocument(u, d)

SpecFolder == InitFolder /\ [][NextFolder]_vars


(***************************************************************************)
(* routes/folders.js: GET /api/folders                                     *)
(***************************************************************************)
\* the position of a folder name in ascending order
NameRank(n) == CASE n = "a" -> 1 [] n = "b" -> 2

\* the orders in which orderBy('name', 'asc') may return the rows of S: rows
\* of equal name come in an order the query does not fix
SortedRows(S) ==
    {q \in [1..Cardinality(S) -> S] :
        /\ \A i, j \in 1..Cardinality(S) : i # j => q[i] # q[j]
        /\ \A i, j \in 1..Cardinality(S) :
              i < j => NameRank(q[i].name) <= NameRank(q[j].name)}

\* the ids of a sequence of rows, in order
IdsOf(rows) == [i \in 1..Len(rows) |-> rows[i].id]

\* the query of GET /api/folders: all folders, or with course_id those
\* holding a document of the course
SelectedFolders(course_id) ==
    IF course_id = Null THEN folders
    ELSE {f \in folders :
            \E d \in documents : d.folder_id = f.id /\ d.course_id = course_id}

\* the tree assembly with children.unshift in place of children.push
BuildTree_unshift(rows) ==
    LET ids == {rows[i].id : i \in 1..Len(rows)}
        IsRoot(r) == r.parent_id = Null
        Rev(q) == [i \in 1..Len(q) |-> q[Len(q) + 1 - i]]
    IN  [rows     |-> rows,
         roots    |-> IdsOf(SelectSeq(rows, IsRoot)),
         children |-> [id \in ids |->
                         LET IsChild(r) == r.parent_id = id
                         IN  Rev(IdsOf(SelectSeq(rows, IsChild)))]]

\* the tree assembly: rootFolders, and folderMap[id].children for every row
BuildTree(rows) ==
    LET ids == {rows[i].id : i \in 1..Len(rows)}
        IsRoot(r) == r.parent_id = Null
    IN  [rows     |-> rows,
         roots    |-> IdsOf(SelectSeq(rows, IsRoot)),
         children |-> [id \in ids |->
                         LET IsChild(r) == r.parent_id = id
                         IN  IdsOf(SelectSeq(rows, IsChild))]]

\* GET /api/folders
GetFolders(u, course_id) ==
    /\ \E rows \in SortedRows(SelectedFolders(course_id)) : tree' = BuildTree(rows)
    /\ resp' = Response("GetFolders", u, course_id, 200)
    /\ UNCHANGED <<courseVars, taskVars, docVars, commentVars, now, reqs, folders,
                   next_folder, logVars>>

(***************************************************************************)
(* The folder tree of every folders table of at most MaxTreeRows rows      *)
(***************************************************************************)
\* Folder ids are opaque, so the tables are taken up to renaming of ids:
\* the folders are numbered 1..k in ascending order of name.  Every parent
\* assignment without a self-reference is a table the folder routes reach.
DocIn(f) == "d" \o f           \* the document filed in folder f

InitTree ==
    /\ courses = {[id |-> "c1", instructor_id |-> "inst1", name |-> "n0"]}
    /\ course_enrollments = {[course_id |-> "c1", user_id |-> "stu1", role |-> "student"]}
    /\ projects = {}
    /\ tasks = {}
    /\ task_assignments = {}
    /\ submissions = {}
    /\ \E k \in 0..MaxTreeRows :
          /\ \E par \in [1..k -> 0..k], nm \in [1..k -> FolderNames] :
                /\ \A n \in 1..k : par[n] # n
                /\ \A m, n \in 1..k : m < n => NameRank(nm[m]) <= NameRank(nm[n])
                /\ folders = {[id |-> FolderId(n), name |-> nm[n],
                               parent_id |-> IF par[n] = 0 THEN Null ELSE FolderId(par[n])] :
                                 n \in 1..k}
          /\ \E D \in SUBSET (1..k) :
                documents = {[id |-> DocIn(FolderId(n)), author_id |-> "stu1",
                              course_id |-> "c1", folder_id |-> FolderId(n),
                              content |-> "", is_deleted |-> FALSE] : n \in D}
    /\ next_folder = MaxTreeRows + 1
    /\ tree = [rows |-> <<>>, roots |-> <<>>, children |-> <<>>]
    /\ activity_log = <<>>
    /\ feed = <<>>
    /\ document_permissions = {}
    /\ comments = {}
    /\ next_comment = 1
    /\ next_id = 1
    /\ now = 0
    /\ reqs = <<>>
    /\ resp = NoResp

\* one request on each table: the request writes nothing
NextTree ==
    /\ resp = NoResp
    /\ \E u \in FolderUsers, c \in {Null, "c1"} : GetFolders(u, c)

SpecTree == InitTree /\ [][NextTree]_vars


(***************************************************************************)
(* utils/activityLogger.js: getCourseActivity                              *)
(***************************************************************************)
DefaultLimit == 100     \* getCourseActivity(courseId, limit = 100)

\* the where clause with every document in place of the documents of the course
InCourseClosure_allDocuments(e, courseId) ==
    \/ e.entity_type = "course" /\ e.entity_id = courseId
    \/ /\ e.entity_type = "project"
       /\ e.entity_id \in {p.id : p \in {x \in projects : x.course_id = courseId}}
    \/ /\ e.entity_type = "task"
       /\ e.entity_id \in
             {t.id : t \in {x \in tasks :
                 \E p \in projects : p.id = x.project_id /\ p.course_id = courseId}}
    \/ /\ e.entity_type = "submission"
       /\ e.entity_id \in
             {s.id : s \in {x \in submissions :
                 \E t \in tasks, p \in projects :
                     t.id = x.task_id /\ p.id = t.project_id /\ p.course_id = courseId}}
    \/ /\ e.entity_type = "document"
       /\ e.entity_id \in {d.id : d \in documents}

\* the where clause of getCourseActivity for one activity_log row e
InCourseClosure(e, courseId) ==
    \/ e.entity_type = "course" /\ e.entity_id = courseId
    \/ /\ e.entity_type = "project"
       /\ e.entity_id \in {p.id : p \in {x \in projects : x.course_id = courseId}}
    \/ /\ e.entity_type = "task"
       /\ e.entity_id \in
             {t.id : t \in {x \in tasks :
                 \E p \in projects : p.id = x.project_id /\ p.course_id = courseId}}
    \/ /\ e.entity_type = "submission"
       /\ e.entity_id \in
             {s.id : s \in {x \in submissions :
                 \E t \in tasks, p \in projects :
                     t.id = x.task_id /\ p.id = t.project_id /\ p.course_id = courseId}}
    \/ /\ e.entity_type = "document"
       /\ e.entity_id \in {d.id : d \in {x \in documents : x.course_id = courseId}}

EntityDefaultLimit == 50   \* getEntityActivity(entityType, entityId, limit = 50)

\* orderBy('activity_log.created_at', 'asc')
NewestFirst_ascending(q) ==
    {[i \in 1..Len(q) |-> q[p[i]]] :
        p \in {x \in Permutations(1..Len(q)) :
                  \A i, j \in 1..Len(q) :
                      i < j => q[x[i]].created_at <= q[x[j]].created_at}}

\* orderBy('activity_log.created_at', 'desc'): every order of the rows q in
\* which created_at never increases; rows of equal created_at come in any order
NewestFirst(q) ==
    {[i \in 1..Len(q) |-> q[p[i]]] :
        p \in {x \in Permutations(1..Len(q)) :
                  \A i, j \in 1..Len(q) :
                      i < j => q[x[i]].created_at >= q[x[j]].created_at}}

\* .limit(limit)
Limit(found, limit) == SubSeq(found, 1, IF Len(found) < limit THEN Len(found) ELSE limit)

\* the results the query can give; the join with users keeps the rows whose
\* user_id names a stored user
getCourseActivity(courseId, limit) ==
    LET Matches(e) == InCourseClosure(e, courseId) /\ e.user_id \in Users
    IN  {Limit(found, limit) : found \in NewestFirst(SelectSeq(activity_log, Matches))}

getEntityActivity(entityType, entityId, limit) ==
    LET Matches(e) == /\ e.entity_type = entityType
                      /\ e.entity_id = entityId
                      /\ e.user_id \in Users
    IN  {Limit(found, limit) : found \in NewestFirst(SelectSeq(activity_log, Matches))}

\* middleware/authorize.js: isEnrolledInCourse
isEnrolledInCourse(u, c) ==
    IF UserRole(u) = ROLES_ADMIN THEN 0
    ELSE IF ~Enrolled(u, c) THEN 403
    ELSE 0

\* GET /api/courses/:courseId/activity
GetCourseActivity(u, courseId) ==
    /\ IF isEnrolledInCourse(u, courseId) # 0
       THEN /\ resp' = Response("GetCourseActivity", u, courseId,
                                isEnrolledInCourse(u, courseId))
            /\ UNCHANGED feed
       ELSE /\ feed' \in getCourseActivity(courseId, DefaultLimit)
            /\ resp' = Response("GetCourseActivity", u, courseId, 200)
    /\ UNCHANGED <<courseVars, taskVars, docVars, commentVars, now, reqs, folderVars,
                   activity_log>>

\* GET /api/documents/:id/activity
GetDocumentActivity(u, d) ==
    /\ IF canViewDocument(u, d) # 0
       THEN /\ resp' = Response("GetDocumentActivity", u, d, canViewDocument(u, d))
            /\ UNCHANGED feed
       ELSE /\ feed' \in getEntityActivity("document", d, EntityDefaultLimit)
            /\ resp' = Response("GetDocumentActivity", u, d, 200)
    /\ UNCHANGED <<courseVars, taskVars, docVars, commentVars, now, reqs, folderVars,
                   activity_log>>

\* a call getCourseActivity(courseId, limit) of the exported function; resp
\* keeps the arguments of the call, the limit in its last field
CallCourseActivity(courseId, limit) ==
    /\ feed' \in getCourseActivity(courseId, limit)
    /\ resp' = Response("getCourseActivity", Null, courseId, limit)
    /\ UNCHANGED <<courseVars, taskVars, docVars, commentVars, now, reqs, folderVars,
                   activity_log>>

\* a call getEntityActivity(entityType, entityId, limit) of the exported
\* function; resp keeps the arguments of the call
CallEntityActivity(entityType, entityId, limit) ==
    /\ feed' \in getEntityActivity(entityType, entityId, limit)
    /\ resp' = Response("getEntityActivity", entityType, entityId, limit)
    /\ UNCHANGED <<courseVars, taskVars, docVars, commentVars, now, reqs, folderVars,
                   activity_log>>

(***************************************************************************)
(* Two courses, each with a project, a task, a submission and a document,  *)
(* and every activity log of at most MaxActivity rows about them           *)
(***************************************************************************)
LoggedEntities ==
    {<<"course", "c1">>, <<"course", "c2">>, <<"project", "p1">>, <<"project", "p2">>,
     <<"task", "t1">>, <<"task", "t2">>, <<"submission", "s1">>, <<"submission", "s2">>,
     <<"document", "d1">>, <<"document", "d2">>, <<"document", "d3">>,
     <<"folder", "f1">>}

ActivityRows == {LogRow("stu1", "view", e[1], e[2], 0) : e \in LoggedEntities}

ActivityLogs == UNION {[1..n -> ActivityRows] : n \in 0..MaxActivity}

ActivityTask(id, project) ==
    [id |-> id, project_id |-> project, status |-> "published", due_date |-> NullInt,
     allow_late_submission |-> FALSE, max_score |-> 1]

ActivityDocument(id, course) ==
    [id |-> id, author_id |-> "stu1", course_id |-> course, folder_id |-> Null,
     content |-> "", is_deleted |-> FALSE]

InitActivity ==
    /\ courses = {[id |-> "c1", instructor_id |-> "inst1", name |-> "n0"],
                  [id |-> "c2", instructor_id |-> "inst1", name |-> "n0"]}
    /\ course_enrollments =
          {[course_id |-> "c1", user_id |-> "stu1", role |-> "student"],
           [course_id |-> "c2", user_id |-> "stu2", role |-> "student"]}
    /\ projects = {[id |-> "p1", course_id |-> "c1"], [id |-> "p2", course_id |-> "c2"]}
    /\ tasks = {ActivityTask("t1", "p1"), ActivityTask("t2", "p2")}
    /\ task_assignments =
          {[task_id |-> "t1", assigned_to |-> "stu1", status |-> "submitted"],
           [task_id |-> "t2", assigned_to |-> "stu2", status |-> "submitted"]}
    /\ submissions = {NewSubmission("s1", "t1", "stu1", "", 1),
                      NewSubmission("s2", "t2", "stu2", "", 1)}
    /\ next_id = 3
    /\ documents = {ActivityDocument("d1", "c1"), ActivityDocument("d2", "c2"),
                    ActivityDocument("d3", Null)}
    /\ document_permissions = {}
    /\ comments = {}
    /\ next_comment = 1
    /\ folders = {[id |-> "f1", name |-> "a", parent_id |-> Null]}
    /\ next_folder = 2
    /\ tree = [rows |-> <<>>, roots |-> <<>>, children |-> <<>>]
    /\ activity_log \in ActivityLogs
    /\ feed = <<>>
    /\ now = 0
    /\ reqs = <<>>
    /\ resp = NoResp

NextActivity ==
    \E u \in {"admin1", "stu1"}, c \in CourseIds : GetCourseActivity(u, c)

SpecActivity == InitActivity /\ [][NextActivity]_vars

(***************************************************************************)
(* The same courses with every activity log of at most MaxActivity rows     *)
(* about course c1, document d1 and task t2, inserted at times 0..MaxNow;   *)
(* each log is queried once.                                               *)
(***************************************************************************)
FeedEntities == {<<"course", "c1">>, <<"document", "d1">>, <<"task", "t2">>}

FeedRows ==
    {LogRow(u, "view", e[1], e[2], at) :
        u \in {"stu1", "stu2"}, e \in FeedEntities, at \in 0..MaxNow}

\* the logs whose rows were inserted as the clock went on
FeedLogs ==
    {q \in UNION {[1..n -> FeedRows] : n \in 0..MaxActivity} :
        \A i, j \in 1..Len(q) : i < j => q[i].created_at <= q[j].created_at}

Limits == 1..MaxActivity

InitFeed ==
    /\ courses = {[id |-> "c1", instructor_id |-> "inst1", name |-> "n0"],
                  [id |-> "c2", instructor_id |-> "inst1", name |-> "n0"]}
    /\ course_enrollments =
          {[course_id |-> "c1", user_id |-> "stu1", role |-> "student"],
           [course_id |-> "c2", user_id |-> "stu2", role |-> "student"]}
    /\ projects = {[id |-> "p1", course_id |-> "c1"], [id |-> "p2", course_id |-> "c2"]}
    /\ tasks = {ActivityTask("t1", "p1"), ActivityTask("t2", "p2")}
    /\ task_assignments = {}
    /\ submissions = {}
    /\ next_id = 1
    /\ documents = {ActivityDocument("d1", "c1")}
    /\ document_permissions = {}
    /\ comments = {}
    /\ next_comment = 1
    /\ folders = {}
    /\ next_folder = 1
    /\ tree = [rows |-> <<>>, roots |-> <<>>, children |-> <<>>]
    /\ activity_log \in FeedLogs
    /\ feed = <<>>
    /\ now = MaxNow
    /\ reqs = <<>>
    /\ resp = NoResp

NextFeed ==
    /\ resp = NoResp
    /\ \/ \E c \in {"c1", "c2"}, n \in Limits : CallCourseActivity(c, n)
       \/ \E e \in FeedEntities, n \in Limits : CallEntityActivity(e[1], e[2], n)
       \/ \E u \in {"stu1", "stu2"} : GetDocumentActivity(u, "d1")

SpecFeed == InitFeed /\ [][NextFeed]_vars

(***************************************************************************)
(* routes/tasks.js: POST /api/tasks and DELETE /api/tasks/:id with their    *)
(* log entries, and the course feed read between them                      *)
(***************************************************************************)
FreshTaskIds == {"t1", "t2"}

\* a task id that the database has given out before
TaskIdUsed(t) ==
    TaskStored(t) \/ \E i \in 1..Len(activity_log) :
                        activity_log[i].entity_type = "task" /\ activity_log[i].entity_id = t

TaskFeedUnchanged ==
    UNCHANGED <<courseVars, next_id, docVars, commentVars, now, reqs, folderVars, feed>>

\* POST /api/tasks; t is the id the database gives the new row
CreateTask(u, project_id, t) ==
    /\ ~TaskIdUsed(t)
    /\ IF ~\E p \in projects : p.id = project_id
       THEN /\ resp' = Response("CreateTask", u, t, 404)
            /\ UNCHANGED <<tasks, activity_log>>
       ELSE IF ~EnrolledAsStaff(u, ProjectRow(project_id).course_id) /\ UserRole(u) # "admin"
       THEN /\ resp' = Response("CreateTask", u, t, 403)
            /\ UNCHANGED <<tasks, activity_log>>
       ELSE /\ tasks' = tasks \cup
                  {[id |-> t, project_id |-> project_id, status |-> "draft",
                    due_date |-> NullInt, allow_late_submission |-> FALSE, max_score |-> 100]}
            /\ activity_log' = logActivity(u, "create", "task", t, TRUE)
            /\ resp' = Response("CreateTask", u, t, 201)
    /\ UNCHANGED <<task_assignments, submissions>>
    /\ TaskFeedUnchanged

\* DELETE /api/tasks/:id; the assignments and submissions of the task go with
\* it (ON DELETE CASCADE)
DeleteTask(u, t) ==
    /\ IF ~TaskJoined(t)
       THEN /\ resp' = Response("DeleteTask", u, t, 404)
            /\ UNCHANGED <<tasks, task_assignments, submissions, activity_log>>
       ELSE IF ~EnrolledAsStaff(u, TaskCourse(t)) /\ UserRole(u) # "admin"
       THEN /\ resp' = Response("DeleteTask", u, t, 403)
            /\ UNCHANGED <<tasks, task_assignments, submissions, activity_log>>
       ELSE /\ tasks' = {r \in tasks : r.id # t}
            /\ task_assignments' = {a \in task_assignments : a.task_id # t}
            /\ submissions' = {x \in submissions : x.task_id # t}
            /\ activity_log' = logActivity(u, "delete", "task", t, TRUE)
            /\ resp' = Response("DeleteTask", u, t, 200)
    /\ TaskFeedUnchanged

\* Course c1 with project p1: inst1 and stu1 create and delete tasks and stu1
\* reads the feed of the course.
InitTaskFeed ==
    /\ SeedCourse
    /\ tasks = {}
    /\ task_assignments = {}
    /\ submissions = {}
    /\ next_id = 1
    /\ now = 0
    /\ reqs = <<>>
    /\ NoFoldersNoLog
    /\ resp = NoResp

NextTaskFeed ==
    \/ \E u \in {"inst1", "stu1"}, p \in {"p1", "p2"}, t \in FreshTaskIds : CreateTask(u, p, t)
    \/ \E u \in {"inst1", "stu1"}, t \in FreshTaskIds : DeleteTask(u, t)
    \/ GetCourseActivity("stu1", "c1")

SpecTaskFeed == InitTaskFeed /\ [][NextTaskFeed]_vars


(***************************************************************************)
(* Two courses with a graded task each; enrollments come and go            *)
(***************************************************************************)
GradeCourses == {"c1", "c2"}
GradeActors  == {"inst1", "stu1"}

InitGrade ==
    /\ courses = {[id |-> "c1", instructor_id |-> "inst1", name |-> "n0"],
                  [id |-> "c2", instructor_id |-> "admin1", name |-> "n0"]}
    /\ course_enrollments =
          {[course_id |-> "c1", user_id |-> "inst1", role |-> "instructor"],
           [course_id |-> "c2", user_id |-> "admin1", role |-> "instructor"],
           [course_id |-> "c1", user_id |-> "stu2", role |-> "student"],
           [course_id |-> "c2", user_id |-> "stu2", role |-> "student"]}
    /\ projects = {[id |-> "p1", course_id |-> "c1"], [id |-> "p2", course_id |-> "c2"]}
    /\ tasks = {ActivityTask("t1", "p1"), ActivityTask("t2", "p2")}
    /\ task_assignments =
          {[task_id |-> "t1", assigned_to |-> "stu2", status |-> "submitted"],
           [task_id |-> "t2", assigned_to |-> "stu2", status |-> "submitted"]}
    /\ submissions = {NewSubmission(SubId(1), "t1", "stu2", "", 1),
                      NewSubmission(SubId(2), "t2", "stu2", "", 1)}
    /\ next_id = 3
    /\ documents = {}
    /\ document_permissions = {}
    /\ comments = {}
    /\ next_comment = 1
    /\ now = 0
    /\ reqs = <<>>
    /\ NoFoldersNoLog
    /\ resp = NoResp

NextGrade ==
    \/ \E a \in GradeActors \cup {"admin1"}, c \in GradeCourses, t \in GradeActors,
          r \in EnrollRoles : EnrollUser(a, c, t, r)
    \/ \E a \in GradeActors, c \in GradeCourses, e \in course_enrollments :
          e.user_id \in GradeActors /\ RemoveEnrollment(a, c, e)
    \/ \E u \in GradeActors, s \in {SubId(1), SubId(2), SubId(3)} : GradeSubmission(u, s, 1)

SpecGrade == InitGrade /\ [][NextGrade]_vars

(***************************************************************************)
(* Listings of documents: GET /api/documents, GET /api/search and           *)
(* GET /api/folders/:id.  The text search, doc_type and author filters and  *)
(* the paging only narrow a result and are left out; the columns they read  *)
(* are not in the rows.                                                    *)
(***************************************************************************)
\* part_004 34-64: the ids of the rows the list query selects; folder_id and
\* course_id are Null when the query string leaves them out
DocumentsListed(u, folder_id, course_id) ==
    {r.id : r \in
        {x \in LiveDocs :
            /\ \/ x.author_id = u
               \/ x.course_id \in EnrolledCourses(u)
               \/ x.id \in {p.document_id : p \in
                     {y \in document_permissions :
                         y.user_id = u \/ y.course_id \in EnrolledCourses(u)}}
            /\ folder_id # Null => x.folder_id = folder_id
            /\ course_id # Null => x.course_id = course_id}}

\* search.js 36-56 with the is_deleted condition left out of the query
DocumentsFound_noDeletedFilter(u, course_id) ==
    {r.id : r \in
        {x \in documents :
            /\ x.author_id = u \/ x.course_id \in EnrolledCourses(u)
            /\ course_id # Null => x.course_id = course_id}}

\* search.js 36-56: the ids of the documents the search selects
DocumentsFound(u, course_id) ==
    {r.id : r \in
        {x \in LiveDocs :
            /\ x.author_id = u \/ x.course_id \in EnrolledCourses(u)
            /\ course_id # Null => x.course_id = course_id}}

\* folders.js 82-95: the documents shown as contents of folder f
FolderDocuments(u, f) ==
    {r.id : r \in
        {x \in LiveDocs :
            /\ x.folder_id = f
            /\ x.author_id = u \/ x.course_id \in EnrolledCourses(u)}}

ListUnchanged ==
    UNCHANGED <<courseVars, taskVars, docVars, commentVars, now, reqs, folderVars, logVars>>

\* GET /api/documents
GetDocuments(u, folder_id, course_id) ==
    /\ resp' = Response("GetDocuments", u, Null, 200)
    /\ ListUnchanged

\* GET /api/search?type=document
Search(u, course_id) ==
    /\ resp' = Response("Search", u, Null, 200)
    /\ ListUnchanged

\* GET /api/folders/:id
GetFolder(u, f) ==
    /\ resp' = Response("GetFolder", u, f, IF FolderStored(f) THEN 200 ELSE 404)
    /\ ListUnchanged

\* Course c1 of inst1 and folder f1; inst1 writes and deletes document d1,
\* stu1 is enrolled and removed, grants on d1 come and go, and stu1 and stu2
\* ask for the listings.
ListReaders == {"stu1", "stu2"}

ViewGrants == {p \in PermissionRows : p.permission = "view"}

InitList ==
    /\ courses = {[id |-> "c1", instructor_id |-> "inst1", name |-> "n0"]}
    /\ course_enrollments = {[course_id |-> "c1", user_id |-> "inst1", role |-> "instructor"]}
    /\ projects = {}
    /\ tasks = {}
    /\ task_assignments = {}
    /\ submissions = {}
    /\ documents = {}
    /\ document_permissions = {}
    /\ comments = {}
    /\ next_comment = 1
    /\ next_id = 1
    /\ now = 0
    /\ reqs = <<>>
    /\ folders = {[id |-> FolderId(1), name |-> "a", parent_id |-> Null]}
    /\ next_folder = 2
    /\ tree = [rows |-> <<>>, roots |-> <<>>, children |-> <<>>]
    /\ activity_log = <<>>
    /\ feed = <<>>
    /\ resp = NoResp

NextList ==
    \/ \E c \in {"c1", Null}, f \in {FolderId(1), Null} : CreateDocument("inst1", c, f)
    \/ \E d \in DocIds : DeleteDocument("inst1", d)
    \/ \E p \in ViewGrants : InsertDocumentPermission(p)
    \/ \E p \in ViewGrants : DeleteDocumentPermission(p)
    \/ \E t \in ListReaders : EnrollUser("inst1", "c1", t, "student")
    \/ \E e \in course_enrollments : e.user_id \in ListReaders /\ RemoveEnrollment("inst1", "c1", e)
    \/ \E u \in ListReaders, f \in {FolderId(1), Null}, c \in {"c1", Null} : GetDocuments(u, f, c)
    \/ \E u \in ListReaders, c \in {"c1", Null} : Search(u, c)
    \/ \E u \in ListReaders, f \in {FolderId(1), FolderId(2)} : GetFolder(u, f)

SpecList == InitList /\ [][NextList]_vars

(***************************************************************************)
(* The owner of course c1 manages its enrollments, its own included, and    *)
(* updates and assigns the task of the course.                             *)
(***************************************************************************)
InitOwner ==
    /\ SeedCourse
    /\ tasks = {ActivityTask("t1", "p1")}
    /\ task_assignments = {}
    /\ submissions = {}
    /\ next_id = 1
    /\ now = 0
    /\ reqs = <<>>
    /\ NoFoldersNoLog
    /\ resp = NoResp

NextOwner ==
    \/ \E t \in {"inst1", "stu1"}, r \in EnrollRoles : EnrollUser("inst1", "c1", t, r)
    \/ \E e \in course_enrollments : RemoveEnrollment("inst1", "c1", e)
    \/ \E upd \in TaskUpdates : UpdateTask("inst1", "t1", upd)
    \/ \E all \in BOOLEAN : AssignTask("inst1", "t1", {"stu1"}, all)

SpecOwner == InitOwner /\ [][NextOwner]_vars


(***************************************************************************)
(* Properties of document access                                           *)
(***************************************************************************)
IsAdmin(u)      == UserRole(u) = "admin"
IsAuthor(u, d)  == \E r \in documents : r.id = d /\ r.author_id = u
IsDeleted(d)    == \E r \in documents : r.id = d /\ r.is_deleted
NotDeleted(d)   == \E r \in documents : r.id = d /\ ~r.is_deleted

\* u has an enrollment row in the course of document d
EnrolledInDocCourse(u, d) ==
    \E r \in documents, e \in course_enrollments :
        r.id = d /\ r.course_id # Null /\ e.course_id = r.course_id /\ e.user_id = u

\* u holds a grant on d with a level in levels: a row naming u, or a row
\* naming a course in which u is enrolled
HoldsGrant(u, d, levels) ==
    \E p \in document_permissions :
        /\ p.document_id = d
        /\ p.permission \in levels
        /\ \/ p.user_id = u
           \/ \E e \in course_enrollments : e.user_id = u /\ e.course_id = p.course_id

Answered(op, u, d) == resp.op = op /\ resp.actor = u /\ resp.target = d

\* C2: a non-admin, non-author user with no explicit grant and an enrollment
\* in the course of a non-deleted document may view it and is answered 403
\* when editing it.
EnrolledOnly(u, d) ==
    /\ NotDeleted(d)
    /\ ~IsAdmin(u)
    /\ ~IsAuthor(u, d)
    /\ ~HoldsGrant(u, d, PermissionLevels)
    /\ EnrolledInDocCourse(u, d)

C2_EnrolledViewsNotEdits ==
    \A u \in Users, d \in DocIds :
        EnrolledOnly(u, d) =>
            /\ canViewDocument(u, d) = 0
            /\ canEditDocument(u, d) = 403
            /\ Answered("GetDocument", u, d) => resp.status = 200
            /\ Answered("PutDocument", u, d) => resp.status = 403

C2_Witness ==
    /\ resp.op = "PutDocument"
    /\ resp.status = 403
    /\ EnrolledOnly(resp.actor, resp.target)
    /\ \E e \in course_enrollments : e.user_id = resp.actor /\ e.role = "student"

\* C3: the author of a non-deleted document may view and edit it, whatever
\* the author's role, enrollments and grants.
C3_AuthorAllowed ==
    \A u \in Users, d \in DocIds :
        (NotDeleted(d) /\ IsAuthor(u, d)) =>
            /\ canViewDocument(u, d) = 0
            /\ canEditDocument(u, d) = 0
            /\ Answered("GetDocument", u, d) => resp.status = 200
            /\ Answered("PutDocument", u, d) => resp.status = 200

C3_Witness ==
    /\ resp.op = "PutDocument"
    /\ resp.status = 200
    /\ ~IsAdmin(resp.actor)
    /\ IsAuthor(resp.actor, resp.target)
    /\ NotDeleted(resp.target)
    /\ ~HoldsGrant(resp.actor, resp.target, PermissionLevels)
    /\ \A e \in course_enrollments : e.user_id # resp.actor
    /\ courses = {}

\* C4: for a non-admin, non-author actor and a non-deleted document, edit is
\* allowed exactly when the actor holds an edit or admin grant (by user or
\* by an enrolled course), and is answered 403 otherwise.
C4_EditIffGrant ==
    \A u \in Users, d \in DocIds :
        (NotDeleted(d) /\ ~IsAdmin(u) /\ ~IsAuthor(u, d)) =>
            /\ canEditDocument(u, d) = (IF HoldsGrant(u, d, {"edit", "admin"}) THEN 0 ELSE 403)
            /\ Answered("PutDocument", u, d) =>
                  resp.status = (IF HoldsGrant(u, d, {"edit", "admin"}) THEN 200 ELSE 403)

C4_Witness ==
    /\ resp.op = "PutDocument"
    /\ resp.status = 403
    /\ ~IsAdmin(resp.actor)
    /\ ~IsAuthor(resp.actor, resp.target)
    /\ HoldsGrant(resp.actor, resp.target, {"view"})
    /\ HoldsGrant(resp.actor, resp.target, {"comment"})

\* C5: a soft-deleted document stays soft-deleted, and every view or edit
\* request on it by a non-admin actor is answered 404.
DeletedIsNotFound ==
    \A u \in Users, d \in DocIds :
        (IsDeleted(d) /\ ~IsAdmin(u)) =>
            /\ canViewDocument(u, d) = 404
            /\ canEditDocument(u, d) = 404
            /\ Answered("GetDocument", u, d) => resp.status = 404
            /\ Answered("PutDocument", u, d) => resp.status = 404

C5_DeletedStaysNotFound ==
    /\ []DeletedIsNotFound
    /\ [][\A d \in DocIds : IsDeleted(d) => IsDeleted(d)']_vars

C5_Witness ==
    /\ resp.op = "GetDocument"
    /\ resp.status = 404
    /\ IsDeleted(resp.target)
    /\ ~IsAdmin(resp.actor)
    /\ HoldsGrant(resp.actor, resp.target, {"view"})
    /\ EnrolledInDocCourse(resp.actor, resp.target)


(***************************************************************************)
(* Properties of submissions                                               *)
(***************************************************************************)
IsGraded(s) == \E r \in submissions : r.id = s /\ r.graded_at # NullInt
IsOwner(u, s) == \E r \in submissions : r.id = s /\ r.user_id = u

\* C1: an admin is never answered 403 and the guarded operation takes
\* effect; an admin's grade of a stored submission with score <= max_score
\* sets score, graded_by and graded_at.
C1_AdminGradeTakesEffect ==
    [][\A u \in Users, s \in SubIds, sc \in Scores :
          ( /\ IsAdmin(u)
            /\ \E r \in submissions, t \in tasks :
                  r.id = s /\ t.id = r.task_id /\ sc <= t.max_score
            /\ GradeSubmission(u, s, sc) )
          => /\ resp'.status = 200
             /\ \E r \in submissions' :
                   /\ r.id = s
                   /\ r.score = sc
                   /\ r.graded_by = u
                   /\ r.graded_at # NullInt]_vars

\* C8: in a sequential history a new submission gets the smallest positive
\* integer that no stored submission of its (task, user) uses, and the
\* stored attempt numbers of a (task, user) are pairwise distinct.
UsedAttempts(t, u) ==
    {r.attempt_number : r \in {x \in submissions : x.task_id = t /\ x.user_id = u}}

SmallestUnused(t, u) ==
    CHOOSE n \in 1..(MaxSubmissions + 1) :
        /\ n \notin UsedAttempts(t, u)
        /\ \A m \in 1..(n - 1) : m \in UsedAttempts(t, u)

AttemptsDistinct ==
    \A r1 \in submissions, r2 \in submissions :
        (r1.task_id = r2.task_id /\ r1.user_id = r2.user_id /\ r1.id # r2.id)
            => r1.attempt_number # r2.attempt_number

C8_SmallestUnusedAttempt ==
    /\ []AttemptsDistinct
    /\ [][\A r \in submissions' :
             (\A x \in submissions : x.id # r.id)
                 => r.attempt_number = SmallestUnused(r.task_id, r.user_id)]_vars

\* C6: a non-admin user who is not the author of a document, is not enrolled
\* in its course and holds no grant on it can neither read its comments nor
\* add or resolve a comment on it: such a request is not answered 200/201
\* and leaves the comments unchanged.
Outsider(u, d) ==
    /\ \E r \in documents : r.id = d
    /\ ~IsAdmin(u)
    /\ ~IsAuthor(u, d)
    /\ ~EnrolledInDocCourse(u, d)
    /\ ~HoldsGrant(u, d, PermissionLevels)

\* the document a comment request is about: the entity_id given, or the
\* entity of the comment named
AboutDocument(r, d) ==
    \/ r.op \in {"GetComments", "PostComment"} /\ r.target = d
    \/ /\ r.op = "ResolveComment"
       /\ \E k \in comments :
             k.id = r.target /\ k.entity_type = "document" /\ k.entity_id = d

C6_OutsiderCannotComment ==
    [][\A u \in Users, d \in DocIds :
          (Outsider(u, d) /\ resp'.actor = u /\ AboutDocument(resp', d))
              => /\ resp'.status \notin {200, 201}
                 /\ comments' = comments]_vars


\* C7: when N requests of one user for one task run concurrently and all
\* have succeeded, the stored attempt numbers of that (task, user) are
\* exactly 1..N, each used once.
SlotsOf(t, u) == {p \in Slots : reqs[p].user = u /\ reqs[p].task = t}

C7_ConcurrentAttemptsGapless ==
    \A u \in Users, t \in TaskIds :
        ( /\ DOMAIN reqs = Slots
          /\ \A p \in Slots : reqs[p].pc = "done"
          /\ \A p \in SlotsOf(t, u) : reqs[p].status = 201 )
        => /\ UsedAttempts(t, u) = 1..Cardinality(SlotsOf(t, u))
           /\ SubmissionCount(t, u) = Cardinality(SlotsOf(t, u))


\* C9: a PUT or DELETE by the owner of a graded submission is answered 400
\* and changes neither the submissions nor the assignments.
C9_GradedIsFrozenForOwner ==
    [][ ( /\ resp'.op \in {"PutSubmission", "DeleteSubmission"}
          /\ IsGraded(resp'.target)
          /\ IsOwner(resp'.actor, resp'.target) )
        => /\ resp'.status = 400
           /\ submissions' = submissions
           /\ task_assignments' = task_assignments ]_vars

C9_Witness ==
    /\ resp.op \in {"PutSubmission", "DeleteSubmission"}
    /\ resp.status = 400
    /\ IsGraded(resp.target)
    /\ IsOwner(resp.actor, resp.target)

\* C10: a submission row is created only when its task is stored and
\* published, an assignment row exists for (task, user) and the task has no
\* due date, or the due date has not passed, or late submission is allowed;
\* a request violating one of these creates no submission and leaves the
\* assignments unchanged.
MaySubmit(u, t) ==
    /\ \E r \in tasks : r.id = t /\ r.status = "published"
    /\ \E a \in task_assignments : a.task_id = t /\ a.assigned_to = u
    /\ \E r \in tasks :
          r.id = t /\ (r.due_date = NullInt \/ ~(now > r.due_date) \/ r.allow_late_submission)

C10_SubmissionRequiresAssignment ==
    [][ /\ \A r \in submissions' :
              (\A x \in submissions : x.id # r.id) => MaySubmit(r.user_id, r.task_id)
        /\ \A u \in Users, t \in TaskIds \cup {"t2"}, x \in Contents :
              (PostSubmission(u, t, x) /\ ~MaySubmit(u, t))
                  => /\ submissions' = submissions
                     /\ task_assignments' = task_assignments
                     /\ resp'.status \in {400, 403, 404} ]_vars

C10_Witness ==
    /\ resp.op = "PostSubmission"
    /\ resp.status = 201
    /\ \E r \in submissions, t \in tasks :
          /\ r.id = resp.target
          /\ t.id = r.task_id
          /\ t.due_date # NullInt
          /\ now > t.due_date
          /\ t.allow_late_submission

(***************************************************************************)
(* Properties of task assignments                                          *)
(***************************************************************************)
StatusRank(st) ==
    CASE st = "not_started" -> 0
      [] st = "in_progress" -> 1
      [] st = "submitted"   -> 2
      [] st = "graded"      -> 3

\* the step from pre-state row a to post-state row b is the revert that a
\* successful delete of an ungraded submission of (task, user) makes
IsDeleteRevert(a, b) ==
    /\ resp'.op = "DeleteSubmission"
    /\ resp'.status = 200
    /\ b.status = "in_progress"
    /\ \E r \in submissions :
          /\ r.id = resp'.target
          /\ r.task_id = a.task_id
          /\ r.user_id = a.assigned_to
          /\ r.graded_at = NullInt

\* C11: the status of an assignment stays, or moves one step forward along
\* not_started -> in_progress -> submitted -> graded, or reverts to
\* in_progress when an ungraded submission is deleted; a status of graded is
\* never replaced by an earlier status.
C11_AssignmentStatusMonotone ==
    [][\A a \in task_assignments, b \in task_assignments' :
          (a.task_id = b.task_id /\ a.assigned_to = b.assigned_to)
              => /\ \/ StatusRank(b.status) = StatusRank(a.status)
                    \/ StatusRank(b.status) = StatusRank(a.status) + 1
                    \/ IsDeleteRevert(a, b)
                 /\ a.status = "graded" => b.status = "graded"]_vars

\* a graded assignment loses its status
C11_GradedReplaced ==
    [][\A a \in task_assignments, b \in task_assignments' :
          (a.task_id = b.task_id /\ a.assigned_to = b.assigned_to /\ a.status = "graded")
              => b.status = "graded"]_vars

\* the assignment rows other than the one of submission row r are the same
\* before and after the step, and the one of r exists with status st
OnlyAssignmentOf(r, st) ==
    /\ \E b \in task_assignments' :
          b.task_id = r.task_id /\ b.assigned_to = r.user_id
    /\ \A b \in task_assignments' :
          IF b.task_id = r.task_id /\ b.assigned_to = r.user_id
          THEN b.status = st
          ELSE b \in task_assignments
    /\ \A a \in task_assignments :
          (a.task_id # r.task_id \/ a.assigned_to # r.user_id) => a \in task_assignments'
    /\ Cardinality(task_assignments') = Cardinality(task_assignments)

\* C12: a successful grade sets the assignment of the submission's (task,
\* user) to graded, a successful delete of an ungraded submission by its
\* owner sets it to in_progress, and no other assignment row changes.
C12_GradeAndDeleteSetAssignment ==
    [][ /\ (resp'.op = "GradeSubmission" /\ resp'.status = 200)
              => \A r \in submissions :
                    r.id = resp'.target => OnlyAssignmentOf(r, "graded")
        /\ (resp'.op = "DeleteSubmission" /\ resp'.status = 200)
              => \A r \in submissions :
                    (r.id = resp'.target /\ r.user_id = resp'.actor /\ r.graded_at = NullInt)
                        => OnlyAssignmentOf(r, "in_progress") ]_vars

C12_Witness ==
    /\ resp.op = "GradeSubmission"
    /\ resp.status = 200
    /\ \E r \in submissions, a \in task_assignments, b \in task_assignments :
          /\ r.id = resp.target
          /\ a.task_id = r.task_id /\ a.assigned_to = r.user_id /\ a.status = "graded"
          /\ b.assigned_to # r.user_id /\ b.status = "not_started"

C12_WitnessDelete ==
    /\ resp.op = "DeleteSubmission"
    /\ resp.status = 200
    /\ \E a \in task_assignments, b \in task_assignments :
          /\ a.assigned_to = resp.actor /\ a.status = "in_progress"
          /\ b.assigned_to # resp.actor

(***************************************************************************)
(* Properties of folders                                                   *)
(***************************************************************************)
\* the folders reached from folder id f by following parent_id n times or
\* fewer, f itself left out
RECURSIVE AncestorsWithin(_, _)
AncestorsWithin(f, n) ==
    IF n = 0 \/ ~FolderStored(f) \/ FolderRow(f).parent_id = Null
    THEN {}
    ELSE {FolderRow(f).parent_id} \cup AncestorsWithin(FolderRow(f).parent_id, n - 1)

Ancestors(f) == AncestorsWithin(f, Cardinality(folders))

FoldersAcyclic == \A r \in folders : r.id \notin Ancestors(r.id)

\* C13: the parent_id relation over folders is acyclic in every state
\* reached by folder creates and updates, and an update whose parent_id is
\* the folder itself or one of its descendants is rejected and leaves the
\* folders unchanged.
C13_FolderMoveKeepsForest ==
    /\ []FoldersAcyclic
    /\ [][\A f \in FolderIds, p \in FolderIds :
             ( /\ resp'.op = "UpdateFolder"
               /\ resp'.target = f
               /\ FolderStored(f)
               /\ (p = f \/ f \in Ancestors(p))
               /\ \E u \in FolderUsers, n \in FolderNames \cup {Undefined}, ok \in BOOLEAN :
                     UpdateFolder(u, f, n, p, ok) )
             => /\ resp'.status \in {400, 409}
                /\ folders' = folders]_vars

\* C14: a delete of a folder holding a child folder or a non-deleted
\* document is answered 400 and leaves folders and documents unchanged; a
\* folder row disappears only when it has neither.
HasChildFolder(f)  == \E c \in folders : c.parent_id = f
HasLiveDocument(f) == \E d \in documents : d.folder_id = f /\ ~d.is_deleted

C14_NonEmptyFolderNotDeleted ==
    [][ /\ ( /\ resp'.op = "DeleteFolder"
             /\ (HasChildFolder(resp'.target) \/ HasLiveDocument(resp'.target)) )
           => /\ resp'.status = 400
              /\ folders' = folders
              /\ documents' = documents
        /\ \A r \in folders :
              (\A x \in folders' : x.id # r.id)
                  => ~HasChildFolder(r.id) /\ ~HasLiveDocument(r.id) ]_vars

C14_Witness ==
    /\ resp.op = "DeleteFolder"
    /\ resp.status = 400
    /\ ~HasChildFolder(resp.target)
    /\ HasLiveDocument(resp.target)

\* C18: logActivity never raises to its caller: a handler whose
\* activity_log insert fails answers the same status and leaves the same
\* folders and documents as when the insert succeeds, and only the log entry
\* is missing.
SameButLog(a, b) ==
    /\ a.status = b.status
    /\ a.folders = b.folders
    /\ b.activity_log = activity_log

SeqIds(q) == {q[i] : i \in 1..Len(q)}

\* the nodes of the nested answer: the roots and what hangs below them
RECURSIVE NodesWithin(_, _, _)
NodesWithin(t, ids, n) ==
    IF n = 0 \/ ids = {} THEN ids
    ELSE ids \cup NodesWithin(t, UNION {SeqIds(t.children[id]) : id \in ids}, n - 1)

TreeNodes(t) == NodesWithin(t, SeqIds(t.roots), Len(t.rows))

RowIds(t) == {t.rows[i].id : i \in 1..Len(t.rows)}

\* C15: every folder selected by GET /folders is in the returned forest, and
\* a selected folder whose parent is not selected is a root of it.
C15_NoFolderDropped ==
    resp.op = "GetFolders"
        => /\ TreeNodes(tree) = RowIds(tree)
           /\ \A i \in 1..Len(tree.rows) :
                 (tree.rows[i].parent_id # Null /\ tree.rows[i].parent_id \notin RowIds(tree))
                     => tree.rows[i].id \in SeqIds(tree.roots)

\* the rows of the forest below the nodes ids (a sequence), depth first
RECURSIVE FlattenFrom(_, _, _)
FlattenFrom(t, ids, n) ==
    IF ids = <<>> \/ n = 0 THEN <<>>
    ELSE LET row == CHOOSE r \in {t.rows[i] : i \in 1..Len(t.rows)} : r.id = Head(ids)
         IN  <<row>> \o FlattenFrom(t, t.children[Head(ids)], n - 1)
                     \o FlattenFrom(t, Tail(ids), n)

Flatten(t) == FlattenFrom(t, t.roots, Len(t.rows) + 1)

\* C16: flattening a built forest depth first and building again from the
\* flattened rows gives the same nodes, the same children of every node and
\* the same order of siblings.
C16_TreeRoundTrip ==
    resp.op = "GetFolders"
        => LET again == BuildTree(Flatten(tree)) IN
           /\ again.roots = tree.roots
           /\ TreeNodes(again) = TreeNodes(tree)
           /\ \A id \in TreeNodes(tree) : again.children[id] = tree.children[id]

C16_Witness ==
    /\ resp.op = "GetFolders"
    /\ Len(tree.roots) = 2
    /\ \E id \in TreeNodes(tree) : tree.children[id] # <<>>
    /\ BuildTree(Flatten(tree)).roots = tree.roots
    /\ Len(Flatten(tree)) = 3

(***************************************************************************)
(* Properties of the course activity feed                                  *)
(***************************************************************************)
\* entity (ty, id) belongs to course c: the course itself, a project of it,
\* a task of such a project, a submission of such a task, or a document
\* whose course_id is c
BelongsToCourse(ty, id, c) ==
    \/ ty = "course" /\ id = c
    \/ ty = "project" /\ \E p \in projects : p.id = id /\ p.course_id = c
    \/ ty = "task" /\ \E t \in tasks : t.id = id /\ TaskCourse(t.id) = c
    \/ ty = "submission"
          /\ \E x \in submissions : x.id = id /\ TaskCourse(x.task_id) = c
    \/ ty = "document" /\ \E d \in documents : d.id = id /\ d.course_id = c

\* how many times row e occurs in sequence q
Occurrences(q, e) == Cardinality({i \in 1..Len(q) : q[i] = e})

CourseStaff(u, c) ==
    \/ \E r \in courses : r.id = c /\ r.instructor_id = u
    \/ \E e \in course_enrollments :
          e.course_id = c /\ e.user_id = u /\ e.role \in {"instructor", "teaching_assistant"}

\* the course reached by submission -> task -> project -> course
CourseOfSubmission(s) ==
    CHOOSE c \in {r.id : r \in courses} :
        \E x \in submissions, t \in tasks, p \in projects :
            x.id = s /\ t.id = x.task_id /\ p.id = t.project_id /\ p.course_id = c

CourseRoleDecides ==
    \A u \in Users :
        ~IsAdmin(u) =>
            /\ \A r \in courses : (canManageCourse(u, r.id) = 0) <=> CourseStaff(u, r.id)
            /\ \A x \in submissions :
                  /\ (canGradeSubmission(u, x.id) = 0) <=> CourseStaff(u, CourseOfSubmission(x.id))
                  /\ canGradeSubmission(u, x.id) \in {0, 403}

RECURSIVE RepliesTo(_, _, _)
RepliesTo(r, k, n) ==
    \/ r.id = k
    \/ /\ n > 0
       /\ r.parent_id # Null
       /\ \E q \in comments : q.id = r.parent_id /\ RepliesTo(q, k, n - 1)

InSubtree(r, k) == RepliesTo(r, k, Cardinality(comments))

\* C20: after a successful delete of a comment neither it nor any direct or
\* transitive reply to it is stored, and every other comment is unchanged.
C20_DeleteRemovesReplySubtree ==
    [][ (resp'.op = "DeleteComment" /\ resp'.status = 200)
          => /\ \A r \in comments : InSubtree(r, resp'.target) => r \notin comments'
             /\ \A r \in comments : ~InSubtree(r, resp'.target) => r \in comments'
             /\ comments' \subseteq comments ]_vars

\* a thread was deleted by its root while a comment outside it stays stored
C20_Witness ==
    /\ resp.op = "DeleteComment"
    /\ resp.status = 200
    /\ next_comment = 4
    /\ ~CommentStored(resp.target)
    /\ Cardinality(comments) = 1
    /\ \A r \in comments : r.parent_id = Null

(***************************************************************************)
(* Properties of the audit trail                                           *)
(***************************************************************************)
\* the comment requests that change the comments table
MutatingCommentOps == {"PostComment", "DeleteComment", "ResolveComment"}

\* the step appended exactly one activity_log row and it names the actor
AppendsOneEntryOf(actor) ==
    /\ Len(activity_log') = Len(activity_log) + 1
    /\ SubSeq(activity_log', 1, Len(activity_log)) = activity_log
    /\ activity_log'[Len(activity_log')].user_id = actor

\* C21: every successful mutating request appends exactly one activity_log
\* entry naming the actor and the affected entity; here for the create, delete
\* and resolve of a comment.
C21_EveryMutationIsLogged ==
    [][ (resp'.op \in MutatingCommentOps /\ resp'.status \in {200, 201})
          => AppendsOneEntryOf(resp'.actor) ]_vars

(***************************************************************************)
(* Properties of soft-deleted documents                                    *)
(***************************************************************************)
\* C22: a soft-deleted document stays stored and is absent for every
\* non-admin actor: the view, edit and delete middlewares answer 404 for it, so
\* a repeated delete request does not succeed again.
C22_DeletedDocumentIsAbsent ==
    [][ \A d \in DocIds :
           IsDeleted(d) =>
              /\ IsDeleted(d)'
              /\ (resp'.target = d /\ ~IsAdmin(resp'.actor)
                    /\ resp'.op \in {"GetDocument", "PutDocument", "DeleteDocument"})
                   => resp'.status = 404 ]_vars

(***************************************************************************)
(* Properties of the order and the limit of activity queries               *)
(***************************************************************************)
\* the rows of the log that the query answered by resp selects
Selected(e) ==
    IF resp.op = "getCourseActivity"
    THEN BelongsToCourse(e.entity_type, e.entity_id, resp.target)
    ELSE e.entity_type = resp.actor /\ e.entity_id = resp.target

Selection == SelectSeq(activity_log, Selected)

C24_CheckedRequestCommits ==
    [][ \A p \in Slots :
           (reqs[p].pc = "update" /\ reqs'[p].pc = "done")
              => /\ reqs'[p].status = 200
                 /\ \A r \in courses' : r.id = reqs[p].course => r.name = reqs[p].name ]_vars

\* the update of stu1 was committed when stu1 no longer passed canManageCourse
C24_Witness ==
    /\ resp.op = "PutCourse"
    /\ resp.status = 200
    /\ canManageCourse(resp.actor, resp.target) = 403
    /\ \E r \in courses : r.id = resp.target /\ r.name = "n1"

(***************************************************************************)
(* Properties of course ownership                                          *)
(***************************************************************************)
\* the course that a request on target x is about: x is a course or a task
CourseOfTarget(x) == IF TaskStored(x) THEN TaskCourse(x) ELSE x

IsCourseOwner(u, c) == \E r \in courses : r.id = c /\ r.instructor_id = u

\* C25: the owner of a course (instructor_id) is allowed every management
\* request on it, on the task routes as on the course routes, also after the
\* owner's enrollment row has been removed.
C25_OwnerManagesEverywhere ==
    [][ ( /\ resp'.op \in {"EnrollUser", "RemoveEnrollment", "UpdateTask", "AssignTask"}
          /\ IsCourseOwner(resp'.actor, CourseOfTarget(resp'.target)) )
        => resp'.status # 403 ]_vars

\* C26: a successful DELETE /courses/:courseId/enrollments/:enrollmentId
\* removes only an enrollment of course :courseId, so an actor who manages
\* course A and not course B never removes an enrollment of B.
C26_RemovalStaysInCourse ==
    [][ (resp'.op = "RemoveEnrollment" /\ resp'.status = 200)
          => \A e \in course_enrollments \ course_enrollments' :
                e.course_id = resp'.target ]_vars

(***************************************************************************)
(* Properties of document listings                                         *)
(***************************************************************************)
\* the documents that some listing shows to user u in this state
ShownTo(u) ==
    UNION {DocumentsListed(u, f, c) : f \in FolderIds \cup {Null}, c \in CourseIds \cup {Null}}
    \cup UNION {DocumentsFound(u, c) : c \in CourseIds \cup {Null}}
    \cup UNION {FolderDocuments(u, f) : f \in FolderIds}

\* C27: every document that the document list, the search or the contents of
\* a folder show to a non-admin user is one that canViewDocument allows that
\* user to view in the same state.
C27_ListedIsViewable ==
    \A u \in Users : ~IsAdmin(u) => \A d \in ShownTo(u) : canViewDocument(u, d) = 0

\* stu1 was answered a listing that shows d1, which stu1 did not write
C27_Witness ==
    /\ resp.op \in {"GetDocuments", "Search", "GetFolder"}
    /\ resp.status = 200
    /\ resp.actor = "stu1"
    /\ "d1" \in DocumentsFound("stu1", Null)
    /\ "d1" \in FolderDocuments("stu1", FolderId(1))
    /\ "d1" \in DocumentsListed("stu1", Null, "c1")

(***************************************************************************)
(* Properties of the owner's requests racing with the grade                *)
(***************************************************************************)
\* C28: under every interleaving of an owner's update or delete with a grade
\* of the same submission, a submission whose graded_at is set keeps its
\* content and stays stored, and the owner's request does not move the
\* assignment back from graded.
C28_GradedSurvivesOwnerRace ==
    [][ /\ \A r \in submissions :
              r.graded_at # NullInt
                 => \E q \in submissions' : q.id = r.id /\ q.content = r.content
        /\ \A a \in task_assignments :
              (a.status = "graded" /\ resp'.op = "DeleteSubmission") => a \in task_assignments'
      ]_vars

(***************************************************************************)
(* Properties of the course feed over time                                 *)
(***************************************************************************)
\* C29: an entry of the log that the feed of course C selects stays selected
\* after every later request while C is stored, also an entry about a task of
\* C that is deleted afterwards.
C29_LoggedEntryStaysInFeed ==
    [][ \A c \in CourseIds :
           (CourseExists(c) /\ CourseExists(c)')
              => \A i \in 1..Len(activity_log) :
                    InCourseClosure(activity_log[i], c)
                       => InCourseClosure(activity_log[i], c)' ]_vars

(***************************************************************************)
(* Properties of the comment forest                                        *)
(***************************************************************************)
\* the stored comments of an entity
CommentsOf(etype, eid) == {r \in comments : r.entity_type = etype /\ r.entity_id = eid}

\* the ids in sequence q are rows of t in creation-time order
InCreationOrder(t, q) ==
    \A i, j \in 1..Len(q) :
        i < j => \E a, b \in SeqIds(t.rows) :
                    a.id = q[i] /\ b.id = q[j] /\ a.created_at <= b.created_at

\* t holds every row of S exactly once, each reply under its parent and
\* siblings in creation-time order
IsForestOf(t, S) ==
    /\ SeqIds(Flatten(t)) = S
    /\ Len(Flatten(t)) = Cardinality(S)
    /\ \A r \in S : r.parent_id = Null <=> r.id \in SeqIds(t.roots)
    /\ \A r \in S : \A x \in SeqIds(t.children[r.id]) :
          \E c \in S : c.id = x /\ c.parent_id = r.id
    /\ InCreationOrder(t, t.roots)
    /\ \A r \in S : InCreationOrder(t, t.children[r.id])

\* C30: after any creates and deletes of comments, GET /comments for an
\* entity answers a forest that holds every stored comment of the entity
\* exactly once, replies under their parents, siblings in creation-time order.
C30_CommentsFormForest ==
    \A e \in Entities :
        \A t \in GetCommentsBody(e[1], e[2]) : IsForestOf(t, CommentsOf(e[1], e[2]))

\* the comments of d1 were read when, of three comments written, the answer
\* shows one root and under it a reply written later than the root
C30_Witness ==
    /\ resp.op = "GetComments"
    /\ resp.target = "d1"
    /\ next_comment = 4
    /\ \E t \in GetCommentsBody("document", "d1") :
          /\ Len(t.roots) = 1
          /\ Len(t.children[t.roots[1]]) = 1
    /\ \E r, c \in comments : c.parent_id = r.id /\ c.created_at > r.created_at

=============================================================================
